---------------------------- MODULE Spec2Model ----------------------------
(***************************************************************************)
(* State-machine model of optimum/onnxruntime/modeling_diffusion.py:       *)
(*   - the symbolic output-shape resolver of ORTPipelinePart               *)
(*     (_compile_shapes, _get_output_shapes),                              *)
(*   - the two execution strategies of the pipeline-part wrappers          *)
(*     (_prepare_io_binding / _prepare_onnx_inputs / _prepare_onnx_outputs *)
(*     and the forward methods),                                           *)
(*   - the pipeline assembly's cross-cutting attributes, the use_io_binding*)
(*     setter and the device moves (to).                                   *)
(***************************************************************************)
EXTENDS Integers, Sequences, FiniteSets, TLC

VARIABLES
  \* SpecShapes
  spart,    \* a pipeline part: its shape tables
  scall,    \* the model_inputs shapes of the last _get_output_shapes call
  sres,     \* what that call returned or raised
  \* SpecPipeline
  pparts,   \* ORTDiffusionPipeline: the pipeline parts that are not None, by name
  psafety,  \* ORTDiffusionPipeline.safety_checker (a torch module): << >> or <<module>>
  plast,    \* the last operation on the pipeline and how it ended
  pops,     \* number of state-changing operations made on the pipeline
  \* SpecForward
  fpart,    \* a pipeline part wrapper: its class, declared inputs and outputs, shape tables
  fcache,   \* its _output_buffers when it runs with use_io_binding = True
  fcall,    \* the last forward call: inputs, flags, and what _prepare_io_binding allocated
  fres,     \* what the call returned or raised, with use_io_binding True (iob) and False (host)
  fseen,    \* for every output name, the buffer shape the calls before the last one bound
  fbuf,     \* for every output name, the tensor (its identity) last bound to it with io binding
  fheap,    \* the tensors in reach, by identity: their shape and who wrote their contents
  fheld,    \* the tensors the caller got from the last call and from the call before it
  \* SpecRegistry
  rcall,    \* the last class lookup: the function called and its arguments
  rres,     \* what that lookup returned or raised
  \* SpecSaveLoad
  disk,     \* the file system: directory -> subfolder -> file name -> content
  dpipe,    \* the pipeline the caller holds: its class and its parts, or none yet
  dsaved,   \* the pipeline and the directory of the last _save_pretrained that returned
  dlast     \* the last operation (_from_pretrained or _save_pretrained) and how it ended

svars == <<spart, scall, sres>>

pvars == <<pparts, psafety, plast, pops>>

fvars == <<fpart, fcache, fcall, fres, fseen, fbuf, fheap, fheld>>

rvars == <<rcall, rres>>

dvars == <<disk, dpipe, dsaved, dlast>>

vars == <<spart, scall, sres, pparts, psafety, plast, pops, fpart, fcache, fcall, fres, fseen,
          fbuf, fheap, fheld, rcall, rres, disk, dpipe, dsaved, dlast>>

(***************************************************************************)
(* Bounds of the model.                                                    *)
(***************************************************************************)
\* largest observed size of a tensor dimension
MaxDim == 3
\* number of state-changing operations (flag sets, device moves) followed on one pipeline
MaxOps == 2
\* largest batch size of a forward call
MaxBatch == 2
\* largest num_hidden_layers of a text encoder
MaxLayers == 2

(***************************************************************************)
(* Generic helpers.                                                        *)
(***************************************************************************)
Min(a, b) == IF a <= b THEN a ELSE b

Abs(a) == IF a < 0 THEN -a ELSE a

Range(s) == {s[i] : i \in DOMAIN s}

RECURSIVE SumOver(_, _)
SumOver(S, f) ==
  IF S = {} THEN 0
  ELSE LET x == CHOOSE y \in S : TRUE IN f[x] + SumOver(S \ {x}, f)

\* the empty dict {}
EmptyDict == [x \in {} |-> 0]

\* d[k] = v on a dict (a function with a finite domain)
DictSet(d, k, v) == [x \in (DOMAIN d) \cup {k} |-> IF x = k THEN v ELSE d[x]]

\* d.pop(k) on a dict, the popped value dropped
DictDel(d, k) == [x \in (DOMAIN d) \ {k} |-> d[x]]

(***************************************************************************)
(* Symbolic dimensions (sympy).  A declared dimension is an integer or a   *)
(* string; the strings followed here are a bare symbol "n", a multiple     *)
(* "k*n" and a sum "n + m".  A compiled dimension is a linear form         *)
(*   const + SUM coef[s]*s.                                                *)
(***************************************************************************)
Syms == {"n", "m", "c", "s"}

DimInt(v)    == [tok |-> "int", k |-> v, s |-> "", t |-> ""]
DimSym(x)    == [tok |-> "sym", k |-> 1, s |-> x, t |-> ""]
DimMul(v, x) == [tok |-> "mul", k |-> v, s |-> x, t |-> ""]
DimAdd(x, y) == [tok |-> "add", k |-> 1, s |-> x, t |-> y]

\* sp.sympify(dim)
sympify(dim) ==
  CASE dim.tok = "int" -> [coef |-> [x \in Syms |-> 0], const |-> dim.k]
    [] dim.tok = "sym" -> [coef |-> [x \in Syms |-> IF x = dim.s THEN 1 ELSE 0], const |-> 0]
    [] dim.tok = "mul" -> [coef |-> [x \in Syms |-> IF x = dim.s THEN dim.k ELSE 0], const |-> 0]
    [] dim.tok = "add" -> [coef |-> [x \in Syms |->
                                       (IF x = dim.s THEN 1 ELSE 0) + (IF x = dim.t THEN 1 ELSE 0)],
                           const |-> 0]

\* expr.free_symbols
free_symbols(expr) == {x \in Syms : expr.coef[x] # 0}

\* the expression that is the symbol itself (expr == symbol)
SymbolExpr(x) == [coef |-> [y \in Syms |-> IF y = x THEN 1 ELSE 0], const |-> 0]

\* expr.subs(known): every symbol that is a key of known is replaced by its value
subs(expr, known) ==
  LET K == (DOMAIN known) \cap Syms IN
  [coef  |-> [x \in Syms |-> IF x \in K THEN 0 ELSE expr.coef[x]],
   const |-> expr.const + SumOver(K, [x \in K |-> expr.coef[x] * known[x]])]

\* sp.solve(expr - dim, symbol) for an expression in the one symbol: the list of
\* the roots, each a rational num/den; a linear equation with a non-zero
\* coefficient has exactly one root, whether or not it is an integer
solve(expr, dim, symbol) ==
  IF expr.coef[symbol] = 0 THEN << >>
  ELSE << [num |-> dim - expr.const, den |-> expr.coef[symbol]] >>

\* int(q) of a sympy rational: truncation towards zero
int(q) ==
  LET a == Abs(q.num) \div Abs(q.den) IN
  IF (q.num < 0) # (q.den < 0) THEN -a ELSE a

(***************************************************************************)
(* ORTPipelinePart: construction of the shape tables.                      *)
(***************************************************************************)
\* self._known_symbols: the integer-valued fields of the configuration
known_symbols_of(config) == config

\* a compilation that sympifies and does not substitute the known symbols
compile_shapes_unseeded(shapes, known) ==
  [key \in DOMAIN shapes |-> [i \in DOMAIN shapes[key] |-> sympify(shapes[key][i])]]

\* _compile_shapes: sympify every dimension, then substitute the known symbols
compile_shapes(shapes, known) ==
  [key \in DOMAIN shapes |->
     [i \in DOMAIN shapes[key] |-> subs(sympify(shapes[key][i]), known)]]

(***************************************************************************)
(* ORTPipelinePart._get_output_shapes                                      *)
(***************************************************************************)
ShapeError(msg, names) == [kind |-> "ValueError", msg |-> msg, shapes |-> EmptyDict, unresolved |-> names]

\* an iteration that first substitutes the symbols bound so far, so that a
\* dimension with two symbols is solved once the other symbol is known
bind_dim_joint(expr, dim, known) ==
  LET e == subs(expr, known)
      fs == free_symbols(e) IN
  IF Cardinality(fs) = 0 THEN [err |-> "none", known |-> known]
  ELSE IF Cardinality(fs) = 1 THEN
    LET symbol == CHOOSE x \in fs : TRUE IN
    [err |-> "none", known |-> DictSet(known, symbol, int(solve(e, dim, symbol)[1]))]
  ELSE [err |-> "more than one free symbol", known |-> known]

\* one iteration of the inner loop over zip(compiled_input_shape, input_tensor_shape)
bind_dim(expr, dim, known) ==
  LET fs == free_symbols(expr) IN
  IF Cardinality(fs) = 0 THEN [err |-> "none", known |-> known]
  ELSE IF Cardinality(fs) = 1 THEN
    LET symbol == CHOOSE x \in fs : TRUE IN
    IF expr = SymbolExpr(symbol) THEN [err |-> "none", known |-> DictSet(known, symbol, dim)]
    ELSE LET resolved_symbol == solve(expr, dim, symbol) IN
         IF resolved_symbol # << >>
         THEN [err |-> "none", known |-> DictSet(known, symbol, int(resolved_symbol[1]))]
         ELSE [err |-> "Failed to resolve the symbolic dimension", known |-> known]
  ELSE [err |-> "more than one free symbol", known |-> known]

\* the inner loop: zip stops at the shorter of the two sequences; a raise ends it
RECURSIVE bind_dims(_, _, _, _)
bind_dims(exprs, dims, i, st) ==
  IF st.err # "none" \/ i > Min(Len(exprs), Len(dims)) THEN st
  ELSE bind_dims(exprs, dims, i + 1, bind_dim(exprs[i], dims[i], st.known))

\* the outer loop over self._compiled_input_shapes.items(), in declaration order
RECURSIVE bind_inputs(_, _, _, _, _)
bind_inputs(order, compiled, model_inputs, j, st) ==
  IF st.err # "none" \/ j > Len(order) THEN st
  ELSE IF order[j] \notin DOMAIN model_inputs THEN [err |-> "KeyError", known |-> st.known]
  ELSE bind_inputs(order, compiled, model_inputs, j + 1,
                   bind_dims(compiled[order[j]], model_inputs[order[j]], 1, st))

\* a resolver that returns the shapes that did resolve instead of raising
resolve_outputs_partial(compiled_out, known) ==
  LET shape(o) == [i \in DOMAIN compiled_out[o] |-> subs(compiled_out[o][i], known)]
      resolved == {o \in DOMAIN compiled_out : \A i \in DOMAIN shape(o) : free_symbols(shape(o)[i]) = {}}
  IN [kind |-> "ok", msg |-> "",
      shapes |-> [o \in resolved |-> [i \in DOMAIN shape(o) |-> shape(o)[i].const]],
      unresolved |-> {}]

\* the second half: substitute into every output dimension, split resolved from
\* unresolved, raise when anything is unresolved
resolve_outputs(compiled_out, known) ==
  LET shape(o) == [i \in DOMAIN compiled_out[o] |-> subs(compiled_out[o][i], known)]
      unresolved_output_shapes ==
        {o \in DOMAIN compiled_out : \E i \in DOMAIN shape(o) : free_symbols(shape(o)[i]) # {}}
      resolved_output_shapes == (DOMAIN compiled_out) \ unresolved_output_shapes
  IN IF unresolved_output_shapes # {}
     THEN ShapeError("Failed to resolve the symbolic dimensions for the model", unresolved_output_shapes)
     ELSE [kind |-> "ok", msg |-> "",
           shapes |-> [o \in resolved_output_shapes |->
                         [i \in DOMAIN shape(o) |-> shape(o)[i].const]],
           unresolved |-> {}]

get_output_shapes(part, model_inputs) ==
  LET st == bind_inputs(part.input_order, part.compiled_input_shapes, model_inputs, 1,
                        [err |-> "none", known |-> part.known_symbols])
  IN IF st.err = "KeyError"
       THEN [kind |-> "KeyError", msg |-> "", shapes |-> EmptyDict, unresolved |-> {}]
     ELSE IF st.err # "none" THEN ShapeError(st.err, {})
     ELSE resolve_outputs(part.compiled_output_shapes, st.known)

\* the table a call leaves when its loops write to self._known_symbols itself
known_symbols_shared(part, model_inputs) ==
  bind_inputs(part.input_order, part.compiled_input_shapes, model_inputs, 1,
              [err |-> "none", known |-> part.known_symbols]).known

\* self._known_symbols after a call: the loops write to the copy made on entry
\* (known_symbols = self._known_symbols.copy()), whether the call returns or
\* raises, so the table of the part is the one it had
known_symbols_after_call(part, model_inputs) == part.known_symbols

(***************************************************************************)
(* Specification SpecShapes: a pipeline part with two inputs "a" (rank 2)  *)
(* and "b" (rank 1) and two outputs "y", "z" (rank 1), whose declared      *)
(* dimensions and integer configuration are drawn from bounded sets, and   *)
(* on which _get_output_shapes is called with observed input shapes.       *)
(***************************************************************************)

A1Dims  == {DimSym("n"), DimMul(2, "n"), DimAdd("n", "m")}
A2Dims  == {DimSym("n"), DimSym("m"), DimSym("c"), DimInt(2)}
BDims   == {DimSym("n"), DimSym("m"), DimAdd("n", "m")}
YDims   == {DimSym("n"), DimSym("m"), DimSym("c")}
ZDims   == {DimInt(3)}
Configs == {EmptyDict, [x \in {"c"} |-> 2]}
Dims    == 1..MaxDim

\* ORTPipelinePart.__init__, the part that builds the shape tables
NewShapePart(input_shapes, output_shapes, config) ==
  LET known == known_symbols_of(config) IN
  [input_order            |-> <<"a", "b">>,
   input_shapes           |-> input_shapes,
   output_shapes          |-> output_shapes,
   known_symbols          |-> known,
   compiled_output_shapes |-> compile_shapes(output_shapes, known),
   compiled_input_shapes  |-> compile_shapes(input_shapes, known)]

NoCall == [a |-> << >>, b |-> << >>]
NoResult == [kind |-> "none", msg |-> "", shapes |-> EmptyDict, unresolved |-> {}]

\* the variables of the other specifications, at rest
PipelineIdle ==
  /\ pparts = EmptyDict
  /\ psafety = << >>
  /\ plast = [op |-> "idle"]
  /\ pops = 0

ForwardIdle ==
  /\ fpart = [cls |-> "none"]
  /\ fcache = EmptyDict
  /\ fcall = [op |-> "idle"]
  /\ fres = [op |-> "idle"]
  /\ fseen = EmptyDict
  /\ fbuf = EmptyDict
  /\ fheap = EmptyDict
  /\ fheld = [prev |-> EmptyDict, last |-> EmptyDict]

RegistryIdle ==
  /\ rcall = [op |-> "idle"]
  /\ rres = [op |-> "idle"]

SaveLoadIdle ==
  /\ disk = EmptyDict
  /\ dpipe = [cls |-> "none"]
  /\ dsaved = [op |-> "idle"]
  /\ dlast = [op |-> "idle"]

ShapesIdle ==
  /\ spart = NewShapePart([a |-> << >>, b |-> << >>], [y |-> << >>, z |-> << >>], EmptyDict)
  /\ scall = NoCall
  /\ sres = NoResult

ShapesInit ==
  /\ PipelineIdle
  /\ ForwardIdle
  /\ RegistryIdle
  /\ SaveLoadIdle
  /\ \E a1 \in A1Dims, a2 \in A2Dims, b1 \in BDims,
        y1 \in YDims, z1 \in ZDims, cfg \in Configs :
       spart = NewShapePart([a |-> <<a1, a2>>, b |-> <<b1>>], [y |-> <<y1>>, z |-> <<z1>>], cfg)
  /\ scall = NoCall
  /\ sres = NoResult

\* one call of _get_output_shapes(**model_inputs)
GetOutputShapes ==
  /\ \E d1 \in Dims, d2 \in Dims, d3 \in Dims :
       LET model_inputs == [a |-> <<d1, d2>>, b |-> <<d3>>] IN
       /\ scall' = model_inputs
       /\ sres' = get_output_shapes(spart, model_inputs)
       /\ spart' = [spart EXCEPT !.known_symbols = known_symbols_after_call(spart, model_inputs)]
  /\ UNCHANGED pvars
  /\ UNCHANGED fvars
  /\ UNCHANGED rvars
  /\ UNCHANGED dvars

ShapesNext == GetOutputShapes

SpecShapes == ShapesInit /\ [][ShapesNext]_vars

(***************************************************************************)
(* Devices, execution providers and their options.  The helpers            *)
(* get_device_for_provider, get_provider_for_device and parse_device live  *)
(* in optimum/onnxruntime/utils.py.                                        *)
(***************************************************************************)
CPU  == "CPUExecutionProvider"
CUDA == "CUDAExecutionProvider"

Devices == {"cpu", "cuda:0"}

\* the options the engine reports for the CPU provider, and for the CUDA
\* provider on device 0
CPUOptions  == EmptyDict
CUDAOptions == [device_id |-> 0]
\* options of the CUDA provider that are not the requested ones
OtherOptions == [device_id |-> 1]

\* parse_device(device)[1]
parse_device_options(device) == IF device = "cpu" THEN CPUOptions ELSE CUDAOptions

get_provider_for_device(device) == IF device = "cpu" THEN CPU ELSE CUDA

get_device_for_provider(provider, provider_options) ==
  IF provider = CPU THEN "cpu" ELSE "cuda:0"

\* session.get_providers() / get_provider_options() of a session that runs on
\* `provider` with `options`: the engine lists the CPU provider as the fallback
session_providers(provider) == IF provider = CPU THEN <<CPU>> ELSE <<CUDA, CPU>>

session_providers_options(provider, options) ==
  IF provider = CPU THEN [x \in {CPU} |-> CPUOptions]
  ELSE [x \in {CUDA, CPU} |-> IF x = CUDA THEN options ELSE CPUOptions]

(***************************************************************************)
(* ORTPipelinePart: the attributes the pipeline looks at.                  *)
(***************************************************************************)
PartNames == {"unet", "vae_decoder", "vae_encoder", "text_encoder", "text_encoder_2"}

\* a construction that takes the flag from the provider whatever was supplied
use_io_binding_by_provider(use_io_binding, provider) == provider \in {CUDA}

\* ORTPipelinePart.__init__(session, use_io_binding); use_io_binding is
\* "None", TRUE or FALSE
init_use_io_binding(use_io_binding, provider) ==
  IF use_io_binding # "None" THEN use_io_binding = "True" ELSE provider \in {CUDA}

\* config is what register_to_config loads from the config file next to the model
NewPart(provider, options, use_io_binding, dtype, config) ==
  [config            |-> config,
   providers         |-> session_providers(provider),
   providers_options |-> session_providers_options(provider, options),
   device            |-> get_device_for_provider(provider, options),
   use_io_binding    |-> init_use_io_binding(use_io_binding, provider),
   dtype             |-> dtype]

\* the properties provider and provider_options
provider_of(part) == part.providers[1]

provider_options_of(part) == part.providers_options[part.providers[1]]

\* a move that records the requested device before it compares what the
\* session reports
part_to_eager(part, device, dtype, engine) ==
  IF dtype # "None" /\ dtype # part.dtype
    THEN [part |-> part, raised |-> "NotImplementedError", set_providers |-> FALSE]
  ELSE IF device = "None" \/ device = part.device
    THEN [part |-> part, raised |-> "none", set_providers |-> FALSE]
  ELSE
    LET provider_options == parse_device_options(device)
        provider == get_provider_for_device(device)
        reported ==
          CASE engine = "applied" ->
                 [providers |-> session_providers(provider),
                  providers_options |-> session_providers_options(provider, provider_options)]
            [] engine = "ignored" ->
                 [providers |-> part.providers, providers_options |-> part.providers_options]
            [] engine = "other_options" ->
                 [providers |-> session_providers(provider),
                  providers_options |-> session_providers_options(provider,
                      IF provider = CUDA THEN OtherOptions ELSE CUDAOptions)]
        read == [part EXCEPT !.providers = reported.providers,
                             !.providers_options = reported.providers_options]
    IN IF provider_of(read) # provider \/ provider_options_of(read) # provider_options
         THEN [part |-> [read EXCEPT !.device = device], raised |-> "ValueError", set_providers |-> TRUE]
         ELSE [part |-> [read EXCEPT !.device = device], raised |-> "none", set_providers |-> TRUE]

\* ORTPipelinePart.to(device=..., dtype=...) on one part.  device and dtype
\* are "None" when not given.  engine is what the session does with
\* set_providers: "applied", "ignored" (the providers stay what they were) or
\* "other_options" (the provider is switched, the options reported are not the
\* requested ones).  The result is the part afterwards and the error raised.
part_to(part, device, dtype, engine) ==
  IF dtype # "None" /\ dtype # part.dtype
    THEN [part |-> part, raised |-> "NotImplementedError", set_providers |-> FALSE]
  ELSE IF device = "None" \/ device = part.device
    THEN [part |-> part, raised |-> "none", set_providers |-> FALSE]
  ELSE
    LET provider_options == parse_device_options(device)
        provider == get_provider_for_device(device)
        reported ==
          CASE engine = "applied" ->
                 [providers |-> session_providers(provider),
                  providers_options |-> session_providers_options(provider, provider_options)]
            [] engine = "ignored" ->
                 [providers |-> part.providers, providers_options |-> part.providers_options]
            [] engine = "other_options" ->
                 [providers |-> session_providers(provider),
                  providers_options |-> session_providers_options(provider,
                      IF provider = CUDA THEN OtherOptions ELSE CUDAOptions)]
        read == [part EXCEPT !.providers = reported.providers,
                             !.providers_options = reported.providers_options]
    IN IF provider_of(read) # provider \/ provider_options_of(read) # provider_options
         THEN [part |-> read, raised |-> "ValueError", set_providers |-> TRUE]
         ELSE [part |-> [read EXCEPT !.device = device], raised |-> "none", set_providers |-> TRUE]

(***************************************************************************)
(* ORTDiffusionPipeline and ORTWrapperVae.                                 *)
(***************************************************************************)
\* the keys of ORTDiffusionPipeline.components, in order; "vae" is the
\* ORTWrapperVae, which is never None; image_encoder, a second torch module
\* like safety_checker, is left None
ComponentOrder == <<"vae", "unet", "text_encoder", "text_encoder_2", "safety_checker">>

\* the components that are not None
components(parts, safety) ==
  SelectSeq(ComponentOrder,
            LAMBDA k : \/ k = "vae"
                       \/ k \in DOMAIN parts
                       \/ (k = "safety_checker" /\ safety # << >>))

Attributes == {"device", "provider", "provider_options", "use_io_binding"}

\* hasattr(component, attribute): ORTWrapperVae defines device (and dtype,
\* config) by reading its decoder and sets none of the attributes of
\* ORTPipelinePart.__init__; a torch module has a device and no provider or
\* use_io_binding
hasattr(parts, safety, k, attribute) ==
  CASE k = "vae" -> attribute = "device" /\ "vae_decoder" \in DOMAIN parts
    [] k = "safety_checker" -> attribute = "device"
    [] OTHER -> TRUE

part_attr(part, attribute) ==
  CASE attribute = "device" -> part.device
    [] attribute = "provider" -> provider_of(part)
    [] attribute = "provider_options" -> provider_options_of(part)
    [] attribute = "use_io_binding" -> part.use_io_binding

\* getattr(component, attribute)
getattr(parts, safety, k, attribute) ==
  CASE k = "vae" -> parts["vae_decoder"].device
    [] k = "safety_checker" -> safety[1].device
    [] OTHER -> part_attr(parts[k], attribute)

\* str(value) of an attribute value
str(attribute, value) ==
  CASE attribute = "use_io_binding" -> IF value THEN "True" ELSE "False"
    [] attribute = "provider_options" ->
         IF value = CPUOptions THEN "{}"
         ELSE IF value = CUDAOptions THEN "{'device_id': 0}" ELSE "{'device_id': 1}"
    [] OTHER -> value

\* a reader that returns the first value without comparing the values
validate_first_value(parts, safety, attribute) ==
  LET names == SelectSeq(components(parts, safety),
                         LAMBDA k : hasattr(parts, safety, k, attribute))
  IN IF Len(names) = 0
       THEN [kind |-> "ValueError", msg |-> "is not defined for any component", value |-> "None"]
     ELSE [kind |-> "value", msg |-> "", value |-> getattr(parts, safety, names[1], attribute)]

\* _validate_same_attribute_value_across_components(attribute)
validate_same_attribute_value_across_components(parts, safety, attribute) ==
  LET names == SelectSeq(components(parts, safety),
                         LAMBDA k : hasattr(parts, safety, k, attribute))
      attribute_values == [i \in DOMAIN names |-> getattr(parts, safety, names[i], attribute)]
  IN IF Len(attribute_values) = 0
       THEN [kind |-> "ValueError", msg |-> "is not defined for any component", value |-> "None"]
     ELSE IF Cardinality({str(attribute, attribute_values[i]) : i \in DOMAIN attribute_values}) > 1
       THEN [kind |-> "ValueError", msg |-> "is not the same across components", value |-> "None"]
     ELSE [kind |-> "value", msg |-> "", value |-> attribute_values[1]]

\* a composite that reads device, dtype and config from its encoder
vae_use_encoder(parts, use) ==
  CASE use = "decode" -> [kind |-> "delegated", value |-> "vae_decoder"]
    [] use = "encode" -> [kind |-> "delegated", value |-> "vae_encoder"]
    [] OTHER ->
         IF "vae_encoder" \notin DOMAIN parts THEN [kind |-> "AttributeError", value |-> "None"]
         ELSE [kind |-> "value", value |-> parts["vae_encoder"][use]]

\* ORTWrapperVae: decode(...) and encode(...) call the decoder, resp. the
\* encoder, and device, dtype and config read the decoder's; calling None is a
\* TypeError, reading an attribute of None an AttributeError
vae_use(parts, use) ==
  CASE use = "decode" ->
         IF "vae_decoder" \notin DOMAIN parts THEN [kind |-> "TypeError", value |-> "None"]
         ELSE [kind |-> "delegated", value |-> "vae_decoder"]
    [] use = "encode" ->
         IF "vae_encoder" \notin DOMAIN parts THEN [kind |-> "TypeError", value |-> "None"]
         ELSE [kind |-> "delegated", value |-> "vae_encoder"]
    [] OTHER ->
         IF "vae_decoder" \notin DOMAIN parts THEN [kind |-> "AttributeError", value |-> "None"]
         ELSE [kind |-> "value", value |-> parts["vae_decoder"][use]]

\* the use_io_binding setter: every component that has the attribute gets the value
set_use_io_binding(parts, safety, value) ==
  [k \in DOMAIN parts |->
     IF k \in Range(components(parts, safety)) /\ hasattr(parts, safety, k, "use_io_binding")
     THEN [parts[k] EXCEPT !.use_io_binding = value]
     ELSE parts[k]]

\* a torch module's to(): it moves
module_to(module, device, dtype) ==
  [device |-> IF device = "None" THEN module.device ELSE device,
   dtype  |-> IF dtype = "None" THEN module.dtype ELSE dtype]

\* component.to(...) of one component, on the state st = [parts, safety, raised];
\* engine gives what each part's session does
component_to(st, k, device, dtype, engine) ==
  LET one(s, name) ==
        LET r == part_to(s.parts[name], device, dtype, engine[name]) IN
        [s EXCEPT !.parts[name] = r.part, !.raised = r.raised]
  IN CASE k = "vae" ->
            \* ORTWrapperVae.to: the decoder, then the encoder when there is one
            IF "vae_decoder" \notin DOMAIN st.parts THEN [st EXCEPT !.raised = "AttributeError"]
            ELSE LET s1 == one(st, "vae_decoder") IN
                 IF s1.raised # "none" \/ "vae_encoder" \notin DOMAIN st.parts THEN s1
                 ELSE one(s1, "vae_encoder")
       [] k = "safety_checker" -> [st EXCEPT !.safety = << module_to(st.safety[1], device, dtype) >>]
       [] OTHER -> one(st, k)

\* ORTDiffusionPipeline.to: every component in turn; a raise ends the loop
RECURSIVE pipeline_to_from(_, _, _, _, _, _)
pipeline_to_from(st, order, i, device, dtype, engine) ==
  IF st.raised # "none" \/ i > Len(order) THEN st
  ELSE pipeline_to_from(component_to(st, order[i], device, dtype, engine),
                        order, i + 1, device, dtype, engine)

pipeline_to(parts, safety, device, dtype, engine) ==
  pipeline_to_from([parts |-> parts, safety |-> safety, raised |-> "none"],
                   components(parts, safety), 1, device, dtype, engine)

(***************************************************************************)
(* Specification SpecPipeline: a pipeline built from sessions that all run *)
(* on one provider (_from_pretrained), on which the flag is set, the       *)
(* pipeline or one of its parts is moved, and the cross-cutting attributes *)
(* are read.                                                               *)
(***************************************************************************)
\* the sets of sessions the pipelines followed are built from: stable
\* diffusion XL, stable diffusion with and without the VAE encoder, the XL
\* refiner (no first text encoder), a pipeline of the VAE alone, and one with
\* no VAE session
PresentSets ==
  { PartNames,
    {"unet", "vae_decoder", "vae_encoder", "text_encoder"},
    {"unet", "vae_decoder", "text_encoder"},
    {"unet", "vae_decoder", "vae_encoder", "text_encoder_2"},
    {"vae_decoder", "vae_encoder"},
    {"unet", "text_encoder"} }

\* what the engine of each part does on set_providers: all sessions switch, or
\* all but one (a raise ends the call, so what later sessions would do is moot)
\* a call that gives no device, or a dtype that is refused, never reaches a session
EngineModes(device, dtype) ==
  IF device = "None" \/ dtype # "None" THEN {"applied"}
  ELSE {"applied", "ignored", "other_options"}

EngineChoices(present, device, dtype) ==
  { [k \in PartNames |-> "applied"] } \cup
  { [k \in PartNames |-> IF k = bad THEN mode ELSE "applied"] :
      bad \in present, mode \in EngineModes(device, dtype) \ {"applied"} }

PipelineInit ==
  /\ ShapesIdle
  /\ ForwardIdle
  /\ RegistryIdle
  /\ SaveLoadIdle
  /\ \E present \in PresentSets, provider \in {CPU, CUDA},
        use_io_binding \in {"None", "True", "False"}, has_safety \in BOOLEAN :
       /\ pparts = [k \in present |->
                      NewPart(provider, parse_device_options(get_device_for_provider(provider, EmptyDict)),
                              use_io_binding, "float32", [subfolder |-> k])]
       /\ psafety = IF has_safety THEN << [device |-> "cpu", dtype |-> "float32"] >> ELSE << >>
       /\ plast = [op |-> "init", provider |-> provider, use_io_binding |-> use_io_binding]
  /\ pops = 0

\* pipeline.use_io_binding = value
SetUseIoBinding ==
  /\ pops < MaxOps
  /\ \E value \in BOOLEAN :
       /\ pparts' = set_use_io_binding(pparts, psafety, value)
       /\ plast' = [op |-> "set_use_io_binding", value |-> value]
  /\ pops' = pops + 1
  /\ UNCHANGED psafety
  /\ UNCHANGED svars
  /\ UNCHANGED fvars
  /\ UNCHANGED rvars
  /\ UNCHANGED dvars

\* pipeline.to(device, dtype)
PipelineTo ==
  /\ pops < MaxOps
  /\ \E device \in Devices \cup {"None"}, dtype \in {"None", "float16"} :
     \E engine \in EngineChoices(DOMAIN pparts, device, dtype) :
       LET r == pipeline_to(pparts, psafety, device, dtype, engine) IN
       /\ pparts' = r.parts
       /\ psafety' = r.safety
       /\ plast' = [op |-> "to", on |-> "pipeline", device |-> device, dtype |-> dtype,
                    raised |-> r.raised]
  /\ pops' = pops + 1
  /\ UNCHANGED svars
  /\ UNCHANGED fvars
  /\ UNCHANGED rvars
  /\ UNCHANGED dvars

\* part.to(device, dtype) on one pipeline part
PartTo ==
  /\ pops < MaxOps
  /\ \E k \in DOMAIN pparts, device \in Devices \cup {"None"}, dtype \in {"None", "float16"} :
     \E engine \in EngineModes(device, dtype) :
       LET r == part_to(pparts[k], device, dtype, engine) IN
       /\ pparts' = [pparts EXCEPT ![k] = r.part]
       /\ plast' = [op |-> "to", on |-> k, device |-> device, dtype |-> dtype,
                    raised |-> r.raised, set_providers |-> r.set_providers]
  /\ pops' = pops + 1
  /\ UNCHANGED psafety
  /\ UNCHANGED svars
  /\ UNCHANGED fvars
  /\ UNCHANGED rvars
  /\ UNCHANGED dvars

\* reading pipeline.device, .provider, .provider_options or .use_io_binding
ReadAttribute ==
  /\ \E attribute \in Attributes :
       plast' = [op |-> "read", attribute |-> attribute,
                 result |-> validate_same_attribute_value_across_components(pparts, psafety, attribute)]
  /\ UNCHANGED <<pparts, psafety, pops>>
  /\ UNCHANGED svars
  /\ UNCHANGED fvars
  /\ UNCHANGED rvars
  /\ UNCHANGED dvars

VaeUses == {"decode", "encode", "device", "dtype", "config"}

\* pipeline.vae.decode(...), .encode(...), .device, .dtype or .config
VaeUse ==
  /\ \E use \in VaeUses :
       plast' = [op |-> "vae", use |-> use, result |-> vae_use(pparts, use)]
  /\ UNCHANGED <<pparts, psafety, pops>>
  /\ UNCHANGED svars
  /\ UNCHANGED fvars
  /\ UNCHANGED rvars
  /\ UNCHANGED dvars

PipelineNext ==
  \/ SetUseIoBinding
  \/ PipelineTo
  \/ PartTo
  \/ ReadAttribute
  \/ VaeUse

SpecPipeline == PipelineInit /\ [][PipelineNext]_vars

(***************************************************************************)
(* Tensors and the values of a result mapping.                             *)
(***************************************************************************)
None == [type |-> "None"]

\* a tensor the caller passes, of the given shape
Tensor(shape) == [type |-> "tensor", shape |-> shape]

\* torch.empty(output_shape, device=self.device, dtype=output_dtype), bound to
\* the engine's output of the given name
Buffer(output_name, shape) == [type |-> "buffer", name |-> output_name, shape |-> shape]

\* torch.from_numpy(array).to(self.device) of the array the engine returned for
\* the output of the given name
FromNumpy(output_name) == [type |-> "from_numpy", name |-> output_name]

\* the names hidden_states.0, hidden_states.1, ...
HiddenNames == <<"hidden_states.0", "hidden_states.1", "hidden_states.2", "hidden_states.3">>

hidden_name(i) == HiddenNames[i + 1]

(***************************************************************************)
(* ORTPipelinePart._prepare_io_binding                                     *)
(***************************************************************************)
\* the loop over self.input_names: model_inputs[input_name].dtype raises
\* KeyError for a declared input that was not given and AttributeError for one
\* that is None
input_error(part, model_inputs) ==
  LET bad == {j \in DOMAIN part.input_order :
                \/ part.input_order[j] \notin DOMAIN model_inputs
                \/ model_inputs[part.input_order[j]] = None}
  IN IF bad = {} THEN "none"
     ELSE LET j == CHOOSE x \in bad : \A y \in bad : x <= y IN
          IF part.input_order[j] \notin DOMAIN model_inputs THEN "KeyError" ELSE "AttributeError"

\* the loop when it allocates a buffer for every output at every call
RECURSIVE bind_outputs_always_fresh(_, _, _, _)
bind_outputs_always_fresh(order, current_output_shapes, i, st) ==
  IF st.raised # "none" \/ i > Len(order) THEN st
  ELSE LET output_name == order[i] IN
       IF output_name \notin DOMAIN current_output_shapes THEN [st EXCEPT !.raised = "KeyError"]
       ELSE LET output_shape == current_output_shapes[output_name] IN
            bind_outputs_always_fresh(order, current_output_shapes, i + 1,
              [raised    |-> "none",
               buffers   |-> DictSet(st.buffers, output_name, Buffer(output_name, output_shape)),
               allocated |-> st.allocated \cup {output_name},
               bound     |-> DictSet(st.bound, output_name, output_shape)])

\* the loop over self.output_names: a buffer is allocated when the name is not
\* in self._output_buffers or the cached buffer has another shape
RECURSIVE bind_outputs(_, _, _, _)
bind_outputs(order, current_output_shapes, i, st) ==
  IF st.raised # "none" \/ i > Len(order) THEN st
  ELSE LET output_name == order[i] IN
       IF output_name \notin DOMAIN current_output_shapes THEN [st EXCEPT !.raised = "KeyError"]
       ELSE LET output_shape == current_output_shapes[output_name]
                fresh == \/ output_name \notin DOMAIN st.buffers
                         \/ st.buffers[output_name].shape # output_shape
            IN bind_outputs(order, current_output_shapes, i + 1,
                 [raised    |-> "none",
                  buffers   |-> IF fresh THEN DictSet(st.buffers, output_name, Buffer(output_name, output_shape))
                                ELSE st.buffers,
                  allocated |-> IF fresh THEN st.allocated \cup {output_name} ELSE st.allocated,
                  bound     |-> DictSet(st.bound, output_name, output_shape)])

\* lines 640-659 when output_shapes is None: resolved is what
\* self._get_output_shapes(**model_inputs) returned or raised
bind_resolved_outputs(part, st0, resolved) ==
  IF resolved.kind # "ok" THEN [st0 EXCEPT !.raised = resolved.kind]
  ELSE bind_outputs(part.output_order, resolved.shapes, 1, st0)

\* the shapes of the tensors in model_inputs
shapes_of(model_inputs) ==
  [k \in {x \in DOMAIN model_inputs : model_inputs[x] # None} |-> model_inputs[k].shape]

\* _prepare_io_binding(model_inputs, output_shapes); output_shapes is << >>
\* for None, <<shapes>> when the wrapper gives them.  The result holds
\* self._output_buffers afterwards: the method returns that very dict.
prepare_io_binding(part, buffers, model_inputs, output_shapes) ==
  LET st0 == [raised |-> "none", buffers |-> buffers, allocated |-> {}, bound |-> EmptyDict]
      err == input_error(part, model_inputs)
  IN IF err # "none" THEN [st0 EXCEPT !.raised = err]
     ELSE IF output_shapes # << >>
       THEN bind_outputs(part.output_order, output_shapes[1], 1, st0)
     ELSE bind_resolved_outputs(part, st0, get_output_shapes(part, shapes_of(model_inputs)))

\* what the engine is run on: the shapes of the declared inputs, taken from
\* model_inputs by name (io_binding.bind_input, resp. onnx_inputs)
declared_inputs(part, model_inputs) ==
  [k \in Range(part.input_order) |-> model_inputs[k].shape]

(***************************************************************************)
(* ORTPipelinePart._prepare_onnx_inputs, session.run, _prepare_onnx_outputs*)
(***************************************************************************)
\* every declared output, in a new dict, as a tensor made from the engine's array
prepare_onnx_outputs(part) == [o \in Range(part.output_order) |-> FromNumpy(o)]

run_host(part, model_inputs) ==
  LET err == input_error(part, model_inputs) IN
  IF err # "none" THEN [raised |-> err, outputs |-> EmptyDict, engine |-> << >>]
  ELSE [raised |-> "none", outputs |-> prepare_onnx_outputs(part),
        engine |-> << declared_inputs(part, model_inputs) >>]

(***************************************************************************)
(* The wrappers' handling of model_outputs after the run.                  *)
(***************************************************************************)
\* ORTModelTextEncoder.forward, output_hidden_states true: pop hidden_states.i
\* for i < num_hidden_layers into the list; a missing one raises KeyError
RECURSIVE collect_hidden(_, _, _)
collect_hidden(st, i, num_hidden_layers) ==
  IF st.raised # "none" \/ i >= num_hidden_layers THEN st
  ELSE IF hidden_name(i) \notin DOMAIN st.outputs THEN [st EXCEPT !.raised = "KeyError"]
  ELSE collect_hidden(
         [raised  |-> "none",
          outputs |-> DictDel(DictSet(st.outputs, "hidden_states",
                                      [type |-> "list",
                                       items |-> Append(st.outputs["hidden_states"].items,
                                                        st.outputs[hidden_name(i)])]),
                              hidden_name(i))],
         i + 1, num_hidden_layers)

text_encoder_outputs(model_outputs, num_hidden_layers, output_hidden_states) ==
  IF output_hidden_states THEN
    LET st == collect_hidden(
                [raised |-> "none",
                 outputs |-> DictSet(model_outputs, "hidden_states", [type |-> "list", items |-> << >>])],
                0, num_hidden_layers)
        last == IF "last_hidden_state" \in DOMAIN st.outputs
                THEN st.outputs["last_hidden_state"] ELSE None
    IN IF st.raised # "none" THEN st
       ELSE [raised  |-> "none",
             outputs |-> DictSet(st.outputs, "hidden_states",
                                 [type |-> "list",
                                  items |-> Append(st.outputs["hidden_states"].items, last)])]
  ELSE [raised  |-> "none",
        outputs |-> [k \in (DOMAIN model_outputs) \ {hidden_name(i) : i \in 0..(num_hidden_layers - 1)}
                       |-> model_outputs[k]]]

\* a forward that returns latent_sample under its own name
keep_latent_sample(model_outputs) == model_outputs

\* model_outputs["latents"] = model_outputs.pop("latent_sample")
rename_latent_sample(model_outputs) ==
  IF "latent_sample" \in DOMAIN model_outputs
  THEN DictDel(DictSet(model_outputs, "latents", model_outputs["latent_sample"]), "latent_sample")
  ELSE model_outputs

\* model_outputs["latent_dist"] = DiagonalGaussianDistribution(parameters=pop("latent_parameters"))
wrap_latent_parameters(model_outputs) ==
  IF "latent_parameters" \in DOMAIN model_outputs
  THEN DictDel(DictSet(model_outputs, "latent_dist",
                       [type |-> "DiagonalGaussianDistribution",
                        parameters |-> model_outputs["latent_parameters"]]),
               "latent_parameters")
  ELSE model_outputs

\* what each wrapper's forward does with model_outputs after the run
wrapper_outputs(part, model_outputs, output_hidden_states) ==
  CASE part.cls = "ORTModelTextEncoder" ->
         text_encoder_outputs(model_outputs, part.num_hidden_layers, output_hidden_states)
    [] part.cls = "ORTModelVaeEncoder" ->
         [raised |-> "none", outputs |-> wrap_latent_parameters(rename_latent_sample(model_outputs))]
    [] part.cls = "ORTModelVaeDecoder" ->
         [raised |-> "none", outputs |-> rename_latent_sample(model_outputs)]
    [] OTHER -> [raised |-> "none", outputs |-> model_outputs]

(***************************************************************************)
(* forward of the four wrappers.                                           *)
(***************************************************************************)
\* a forward that hands the timestep to the engine as it was given
keep_timestep(model_inputs) == model_inputs

\* ORTModelUnet.forward: a zero-dimensional timestep is unsqueezed
unsqueeze_timestep(model_inputs) ==
  IF "timestep" \in DOMAIN model_inputs /\ model_inputs["timestep"] # None
     /\ Len(model_inputs["timestep"].shape) = 0
  THEN [model_inputs EXCEPT !["timestep"] = Tensor(<<1>>)]
  ELSE model_inputs

\* ORTModelUnet.forward with use_io_binding: the shape of the one output is the
\* sample's with dimension 1 set to 4
unet_output_shape(part, sample) ==
  [o \in {part.output_order[1]} |-> [i \in DOMAIN sample.shape |-> IF i = 2 THEN 4 ELSE sample.shape[i]]]

\* the inputs as forward hands them to the engine
engine_inputs(part, inputs) ==
  IF part.cls = "ORTModelUnet" THEN unsqueeze_timestep(inputs) ELSE inputs

\* the rest of forward after _prepare_io_binding returned b: model_outputs is
\* self._output_buffers itself, so what the wrapper does to model_outputs it
\* does to the cache
\* does to the cache.  engine is << >> when session.run_with_iobinding was not
\* reached, else the input shapes it ran on.
after_io_binding(part, model_inputs, b, output_hidden_states) ==
  LET w == wrapper_outputs(part, b.buffers, output_hidden_states) IN
  IF b.raised # "none"
    THEN [raised |-> b.raised, outputs |-> EmptyDict, buffers |-> b.buffers,
          allocated |-> b.allocated, bound |-> b.bound, engine |-> << >>]
  ELSE [raised |-> w.raised,
        outputs |-> IF w.raised = "none" THEN w.outputs ELSE EmptyDict,
        buffers |-> w.outputs, allocated |-> b.allocated, bound |-> b.bound,
        engine |-> << declared_inputs(part, model_inputs) >>]

\* forward with use_io_binding = True
forward_io_binding(part, buffers, inputs, output_hidden_states) ==
  after_io_binding(part, engine_inputs(part, inputs),
    prepare_io_binding(part, buffers, engine_inputs(part, inputs),
                       IF part.cls = "ORTModelUnet"
                       THEN << unet_output_shape(part, engine_inputs(part, inputs)["sample"]) >>
                       ELSE << >>),
    output_hidden_states)

\* forward with use_io_binding = False
forward_host(part, inputs, output_hidden_states) ==
  LET model_inputs == engine_inputs(part, inputs)
      r == run_host(part, model_inputs)
      w == wrapper_outputs(part, r.outputs, output_hidden_states)
  IN IF r.raised # "none" THEN r
     ELSE [raised |-> w.raised, outputs |-> IF w.raised = "none" THEN w.outputs ELSE EmptyDict,
           engine |-> r.engine]

(***************************************************************************)
(* Specification SpecForward: one wrapper, built from a session whose      *)
(* declared inputs and outputs are those of the exported models, called    *)
(* any number of times; every call is made on the handle that runs with    *)
(* use_io_binding = True and, with the same inputs and flags, on one that  *)
(* runs with use_io_binding = False.                                       *)
(***************************************************************************)
\* ORTPipelinePart.__init__ for a wrapper class
NewWrapper(cls, input_order, input_shapes, output_order, output_shapes, num_hidden_layers) ==
  LET known == known_symbols_of([x \in {"num_hidden_layers"} |-> num_hidden_layers]) IN
  [cls                    |-> cls,
   num_hidden_layers      |-> num_hidden_layers,
   input_order            |-> input_order,
   output_order           |-> output_order,
   input_shapes           |-> input_shapes,
   output_shapes          |-> output_shapes,
   known_symbols          |-> known,
   compiled_output_shapes |-> compile_shapes(output_shapes, known),
   compiled_input_shapes  |-> compile_shapes(input_shapes, known)]

\* batch_size is "n", sequence_length / height is "m", num_channels is "c", steps is "s"
\* out_channels is the declared channel dimension of the output: the symbol of
\* the sample's channel dimension, or the fixed number of output channels
UnetSession(out_channels) ==
  NewWrapper("ORTModelUnet",
    <<"sample", "timestep", "encoder_hidden_states">>,
    [sample |-> <<DimSym("n"), DimSym("c"), DimSym("m")>>,
     timestep |-> <<DimSym("s")>>,
     encoder_hidden_states |-> <<DimSym("n"), DimInt(2)>>],
    <<"out_sample">>,
    [out_sample |-> <<DimSym("n"), out_channels, DimSym("m")>>],
    0)

TextEncoderSession(num_hidden_layers, with_hidden_states) ==
  LET hidden == IF with_hidden_states THEN {hidden_name(i) : i \in 0..(num_hidden_layers - 1)} ELSE {} IN
  NewWrapper("ORTModelTextEncoder",
    <<"input_ids">>,
    [input_ids |-> <<DimSym("n"), DimSym("m")>>],
    <<"last_hidden_state", "pooler_output">>
      \o (IF with_hidden_states THEN SubSeq(HiddenNames, 1, num_hidden_layers) ELSE << >>),
    [o \in {"last_hidden_state", "pooler_output"} \cup hidden |->
       IF o = "pooler_output" THEN <<DimSym("n"), DimInt(2)>> ELSE <<DimSym("n"), DimSym("m"), DimInt(2)>>],
    num_hidden_layers)

VaeEncoderSession(output_name) ==
  NewWrapper("ORTModelVaeEncoder",
    <<"sample">>,
    [sample |-> <<DimSym("n"), DimInt(3), DimSym("m")>>],
    <<output_name>>,
    [o \in {output_name} |-> <<DimSym("n"), DimInt(4), DimSym("m")>>],
    0)

VaeDecoderSession(output_name) ==
  NewWrapper("ORTModelVaeDecoder",
    <<"latent_sample">>,
    [latent_sample |-> <<DimSym("n"), DimInt(4), DimSym("m")>>],
    <<output_name>>,
    [o \in {output_name} |-> <<DimSym("n"), DimInt(3), DimMul(2, "m")>>],
    0)

UnetOutChannels == {DimSym("c"), DimInt(4), DimInt(8)}

Sessions ==
  {UnetSession(c) : c \in UnetOutChannels}
  \cup {VaeDecoderSession(o) : o \in {"sample", "latent_sample"}}
  \cup {VaeEncoderSession(o) : o \in {"latent_sample", "latent_parameters"}}
  \cup {TextEncoderSession(l, h) : l \in 1..MaxLayers, h \in BOOLEAN}

ForwardInit ==
  /\ ShapesIdle
  /\ PipelineIdle
  /\ RegistryIdle
  /\ SaveLoadIdle
  /\ fpart \in Sessions
  /\ fcache = EmptyDict
  /\ fcall = [op |-> "init"]
  /\ fres = [op |-> "init"]
  /\ fseen = EmptyDict
  /\ fbuf = EmptyDict
  /\ fheap = EmptyDict
  /\ fheld = [prev |-> EmptyDict, last |-> EmptyDict]

(***************************************************************************)
(* Tensor identity.  torch.empty gives a tensor that is none of the        *)
(* tensors in reach; a buffer that is not allocated anew is the tensor the *)
(* cache holds; the engine writes into the tensors bound as outputs;       *)
(* forward returns the values of model_outputs, which with io binding are  *)
(* the tensors of the cache.  A tensor is named <<o, g>>: the output name  *)
(* o it was made for and the number g of tensors made for o after it, so   *)
(* <<o, 0>> is the tensor now bound to o.  Contents are told apart by the  *)
(* call that wrote them: "last" (the last engine run), "prev" (the run     *)
(* before), "older", or "empty" (torch.empty, never written).              *)
(***************************************************************************)
\* the name, after a call that allocated the given outputs, of the tensor
\* that had the name t before it
made_before(t, allocated) == IF t[1] \in allocated THEN <<t[1], t[2] + 1>> ELSE t

\* the name that tensor had before the call
named_before(t, allocated) == IF t[1] \in allocated THEN <<t[1], t[2] - 1>> ELSE t

\* lines 649-650: the tensor bound to every output name after a call: a new
\* one for the names the call allocated, else the tensor bound before
bound_tensors(ids, allocated) == [o \in (DOMAIN ids) \cup allocated |-> <<o, 0>>]

\* the tensors forward returns: the values of model_outputs that are buffers,
\* each the tensor bound to the engine output it was made for
returned_tensors(outputs, ids) ==
  [k \in {x \in DOMAIN outputs : outputs[x].type = "buffer"} |-> ids[outputs[k].name]]

\* contents one engine run later
aged(contents) ==
  CASE contents = "last" -> "prev"
    [] contents = "prev" -> "older"
    [] OTHER -> contents

\* the tensors in reach after a call: the engine, when it ran, wrote into the
\* tensors bound as outputs; the tensors allocated by a call that did not get
\* to the engine are empty
heap_after(heap, ids, held, a) ==
  LET reach == Range(ids) \cup Range(held.prev) \cup Range(held.last)
      ran == a.engine # << >>
      new(t) == t[2] = 0 /\ t[1] \in a.allocated
      written(t) == ran /\ t[2] = 0 /\ t[1] \in DOMAIN a.bound
      before(t) == heap[named_before(t, a.allocated)]
  IN [t \in reach |->
        [shape    |-> IF new(t) THEN a.bound[t[1]] ELSE before(t).shape,
         contents |-> IF written(t) THEN "last"
                      ELSE IF new(t) THEN "empty"
                      ELSE IF ran THEN aged(before(t).contents)
                      ELSE before(t).contents]]

\* the tensors after a forward call with io binding that ended as a
Tensors(a, ids) ==
  LET held == [prev |-> [k \in DOMAIN fheld.last |-> made_before(fheld.last[k], a.allocated)],
               last |-> IF a.raised = "none" THEN returned_tensors(a.outputs, ids) ELSE EmptyDict]
  IN /\ fbuf' = ids
     /\ fheld' = held
     /\ fheap' = heap_after(fheap, ids, held, a)

\* the state after a forward call that gave a with use_io_binding = True and
\* b with use_io_binding = False
Returned(inputs, output_hidden_states, a, b) ==
  /\ Tensors(a, bound_tensors(fbuf, a.allocated))
  /\ fcache' = a.buffers
  /\ fcall' = [op |-> "forward", inputs |-> inputs, output_hidden_states |-> output_hidden_states,
               allocated |-> a.allocated, bound |-> a.bound]
  /\ fres' = [op   |-> "forward",
              iob  |-> [raised |-> a.raised, outputs |-> a.outputs, engine |-> a.engine],
              host |-> [raised |-> b.raised, outputs |-> b.outputs, engine |-> b.engine]]
  /\ fseen' = IF fcall.op = "forward"
              THEN [o \in (DOMAIN fseen) \cup (DOMAIN fcall.bound) |->
                      IF o \in DOMAIN fcall.bound THEN fcall.bound[o] ELSE fseen[o]]
              ELSE fseen
  /\ UNCHANGED fpart
  /\ UNCHANGED svars
  /\ UNCHANGED pvars
  /\ UNCHANGED rvars
  /\ UNCHANGED dvars

\* one forward call, on both handles
Call(inputs, output_hidden_states) ==
  Returned(inputs, output_hidden_states,
           forward_io_binding(fpart, fcache, inputs, output_hidden_states),
           forward_host(fpart, inputs, output_hidden_states))

Batches == 1..MaxBatch

\* a timestep is a zero-dimensional tensor or a tensor of one element
TimestepShapes == {<< >>, <<1>>}

\* model_inputs of unet(sample, timestep, encoder_hidden_states, text_embeds=...)
UnetInputsWith(n, m, t, text_embeds) ==
  [sample |-> Tensor(<<n, 4, m>>), timestep |-> Tensor(t),
   encoder_hidden_states |-> Tensor(<<n, 2>>),
   text_embeds |-> text_embeds, time_ids |-> None, timestep_cond |-> None]

\* model_inputs of unet(sample, timestep, encoder_hidden_states)
UnetInputs(n, m, t) == UnetInputsWith(n, m, t, None)

\* unet(sample, timestep, encoder_hidden_states), with or without text_embeds,
\* which the session does not declare
ForwardUnet ==
  /\ fpart.cls = "ORTModelUnet"
  /\ \E n \in Batches, m \in Batches, t \in TimestepShapes :
     \E text_embeds \in {None, Tensor(<<n, 2>>)} :
       Call(UnetInputsWith(n, m, t, text_embeds), FALSE)

\* text_encoder(input_ids, output_hidden_states=...)
ForwardTextEncoder ==
  /\ fpart.cls = "ORTModelTextEncoder"
  /\ \E n \in Batches, m \in Batches, output_hidden_states \in BOOLEAN :
       Call([input_ids |-> Tensor(<<n, m>>)], output_hidden_states)

\* vae_encoder(sample)
ForwardVaeEncoder ==
  /\ fpart.cls = "ORTModelVaeEncoder"
  /\ \E n \in Batches, m \in Batches : Call([sample |-> Tensor(<<n, 3, m>>)], FALSE)

\* vae_decoder(latent_sample)
ForwardVaeDecoder ==
  /\ fpart.cls = "ORTModelVaeDecoder"
  /\ \E n \in Batches, m \in Batches : Call([latent_sample |-> Tensor(<<n, 4, m>>)], FALSE)

ForwardNext ==
  \/ ForwardUnet
  \/ ForwardTextEncoder
  \/ ForwardVaeEncoder
  \/ ForwardVaeDecoder

SpecForward == ForwardInit /\ [][ForwardNext]_vars

(***************************************************************************)
(* Vocabulary of the shape claims, over the last call of SpecShapes.       *)
(***************************************************************************)
\* the input dimensions (input name, index) the last call zipped with an observed size
InputDimsSeen ==
  {p \in {"a", "b"} \X (1..2) :
     p[2] <= Min(Len(spart.compiled_input_shapes[p[1]]), Len(scall[p[1]]))}

CompiledIn(p) == spart.compiled_input_shapes[p[1]][p[2]]
Observed(p)   == scall[p[1]][p[2]]

\* no input dimension of the part has more than one free symbol
NoAmbiguousInput == \A p \in InputDimsSeen : Cardinality(free_symbols(CompiledIn(p))) <= 1

\* the input dimension is k*s for one symbol s and an integer k >= 2
IsMultipleOf(p, s) ==
  /\ free_symbols(CompiledIn(p)) = {s}
  /\ CompiledIn(p).const = 0
  /\ CompiledIn(p).coef[s] >= 2

\* the input dimension is the bare symbol s
IsBare(p, s) == CompiledIn(p) = SymbolExpr(s)

\* s occurs in no input dimension other than p
OnlyOccurrence(p, s) ==
  \A q \in InputDimsSeen : q # p => s \notin free_symbols(CompiledIn(q))

\* the outputs declared as the bare symbol s
BareOutputs(s) ==
  {o \in DOMAIN spart.compiled_output_shapes : spart.compiled_output_shapes[o][1] = SymbolExpr(s)}

Called == sres.kind # "none"

\* C7 (as claimed): an input dimension k*n observed as d binds n to d/k when k
\* divides d, and the call raises the unresolvable-dimension error when k does
\* not divide d.
C7_LinearSolveOrRaise ==
  (Called /\ NoAmbiguousInput) =>
    \A p \in InputDimsSeen : \A s \in Syms :
      (IsMultipleOf(p, s) /\ OnlyOccurrence(p, s)) =>
        IF Observed(p) % CompiledIn(p).coef[s] = 0
        THEN sres.kind = "ok" =>
               \A o \in BareOutputs(s) : sres.shapes[o][1] = Observed(p) \div CompiledIn(p).coef[s]
        ELSE /\ sres.kind = "ValueError"
             /\ sres.msg = "Failed to resolve the symbolic dimension"

\* C8 (as claimed): when one symbol is derived from more than one input
\* dimension and the derived values disagree, the call returns no output
\* shapes computed from one of them.
C8_ConflictingSymbolRejected ==
  (Called /\ sres.kind = "ok") =>
    \A p \in InputDimsSeen, q \in InputDimsSeen : \A s \in Syms :
      ( /\ free_symbols(CompiledIn(p)) = {s}
        /\ free_symbols(CompiledIn(q)) = {s}
        /\ \E o \in DOMAIN spart.compiled_output_shapes :
              s \in free_symbols(spart.compiled_output_shapes[o][1]) )
      => (Observed(p) - CompiledIn(p).const) * CompiledIn(q).coef[s]
           = (Observed(q) - CompiledIn(q).const) * CompiledIn(p).coef[s]

\* C9 (as claimed): an output dimension that is a bare symbol shared with a
\* bare-symbol input dimension resolves to exactly the observed size of that
\* input dimension.
C9_BareSymbolPassThrough ==
  (Called /\ sres.kind = "ok") =>
    \A p \in InputDimsSeen : \A s \in Syms :
      IsBare(p, s) => \A o \in BareOutputs(s) : sres.shapes[o][1] = Observed(p)

\* the symbols some input dimension binds: those that are the one free symbol
\* of a compiled input dimension
BoundByInputs == {s \in Syms : \E p \in InputDimsSeen : free_symbols(CompiledIn(p)) = {s}}

\* the symbols a declared (not yet compiled) dimension mentions
DeclaredSymbols(dim) ==
  (IF dim.tok = "int" THEN {} ELSE {dim.s}) \cup (IF dim.tok = "add" THEN {dim.t} ELSE {})

\* the outputs with a dimension that mentions a symbol neither the configuration
\* nor any input dimension binds
OutputsWithFreeSymbol ==
  {o \in DOMAIN spart.output_shapes :
     \E i \in DOMAIN spart.output_shapes[o] :
       DeclaredSymbols(spart.output_shapes[o][i])
         \ ((DOMAIN spart.known_symbols) \cup BoundByInputs) # {}}

\* C10: when, after the configuration symbols and the symbols bound from the
\* input shapes are substituted, some output dimension still has a free
\* symbol, the call raises the error that names exactly the unresolved
\* outputs and returns no shape at all, not even of the outputs that resolved.
C10_UnresolvedOutputRaises ==
  (Called /\ NoAmbiguousInput /\ OutputsWithFreeSymbol # {}) =>
    /\ sres.kind = "ValueError"
    /\ sres.msg = "Failed to resolve the symbolic dimensions for the model"
    /\ sres.unresolved = OutputsWithFreeSymbol
    /\ sres.shapes = EmptyDict

\* a call in which one output resolved and the other did not
C10_Witness ==
  /\ Called /\ NoAmbiguousInput
  /\ OutputsWithFreeSymbol = {"y"}
  /\ sres.kind = "ValueError"
  /\ sres.unresolved = {"y"}

\* the input dimensions whose compiled expression has more than one free symbol
AmbiguousInputDims == {p \in InputDimsSeen : Cardinality(free_symbols(CompiledIn(p))) > 1}

\* C11: whenever some declared input dimension, after the configuration
\* symbols are substituted, has more than one free symbol, the call raises the
\* ambiguous-dimension error, also when other input dimensions determine those
\* symbols.
C11_AmbiguousDimensionRaises ==
  (Called /\ AmbiguousInputDims # {}) =>
    /\ sres.kind = "ValueError"
    /\ sres.msg = "more than one free symbol"
    /\ sres.shapes = EmptyDict

\* input b is declared n + m after input a, declared (n, m), gave n and m
C11_Witness ==
  /\ Called
  /\ IsBare(<<"a", 1>>, "n") /\ IsBare(<<"a", 2>>, "m")
  /\ AmbiguousInputDims = {<<"b", 1>>}
  /\ sres.kind = "ValueError"
  /\ sres.msg = "more than one free symbol"

\* the symbols whose name is an integer-valued field of the configuration
ConfigSymbols == (DOMAIN spart.known_symbols) \cap Syms

\* the input dimensions declared as a bare configuration symbol
ConfigInputDims ==
  {p \in InputDimsSeen : \E s \in ConfigSymbols : spart.input_shapes[p[1]][p[2]] = DimSym(s)}

\* C12: a symbol named like an integer configuration field resolves to the
\* configuration value: an input dimension declared with it does not rebind
\* it, and every output dimension declared with it evaluates to the
\* configuration value whatever size that input dimension has in the call.
C12_ConfigSymbolTakesPrecedence ==
  /\ \A p \in ConfigInputDims : free_symbols(CompiledIn(p)) = {}
  /\ (Called /\ sres.kind = "ok") =>
       \A s \in ConfigSymbols : \A o \in DOMAIN spart.output_shapes :
         spart.output_shapes[o][1] = DimSym(s) => sres.shapes[o][1] = spart.known_symbols[s]

\* a is declared (n, c) with c = 2 in the configuration, observed as (1, 3),
\* and the output declared c resolved to 2
C12_Witness ==
  /\ Called /\ sres.kind = "ok"
  /\ "c" \in ConfigSymbols
  /\ spart.input_shapes["a"][2] = DimSym("c")
  /\ Observed(<<"a", 2>>) # spart.known_symbols["c"]
  /\ spart.output_shapes["y"][1] = DimSym("c")
  /\ sres.shapes["y"][1] = spart.known_symbols["c"]

\* C23: a call of _get_output_shapes, returning or raising, leaves the part's
\* symbol table and its compiled input and output shapes as they were: the
\* symbols it binds from the input shapes are gone when it ends.  So a call
\* with the input shapes of the call before it ends as that call did, and every
\* result is the one the tables of the part give for the call's input shapes.
C23_BindingsLiveForOneCall ==
  /\ [][spart' = spart]_vars
  /\ [][(Called /\ scall' = scall) => sres' = sres]_vars
  /\ [](Called => sres = get_output_shapes(spart, scall))

\* a resolution that bound n from an input and resolved an output with it, on
\* a part whose table holds the configuration's c and nothing else
C23_Witness ==
  /\ Called /\ sres.kind = "ok"
  /\ IsBare(<<"a", 1>>, "n")
  /\ spart.output_shapes["y"][1] = DimSym("n")
  /\ sres.shapes["y"][1] = Observed(<<"a", 1>>)
  /\ DOMAIN spart.known_symbols = {"c"}

(***************************************************************************)
(* Vocabulary of the pipeline claims.                                      *)
(***************************************************************************)
\* the step is one on which the named operation acted
StepOf(op) == plast'.op = op /\ (pops' = pops + 1 \/ op = "read")

\* the pipeline parts that hold the managed-buffer flag: all of them
\* (ORTModelUnet, ORTModelTextEncoder, ORTModelVaeEncoder, ORTModelVaeDecoder)
FlagHolders == DOMAIN pparts

\* C3 (as claimed): setting the flag on the pipeline to v leaves every present
\* subnetwork (noise predictor, text encoders, image encoder, image decoder)
\* with flag v, and changes nothing else.
C3_SetterReachesEverySubnetwork ==
  [][ StepOf("set_use_io_binding") =>
        /\ DOMAIN pparts' = DOMAIN pparts
        /\ \A k \in FlagHolders :
             pparts'[k] = [pparts[k] EXCEPT !.use_io_binding = plast'.value]
        /\ psafety' = psafety ]_vars

\* C4 (as claimed): whenever reading a cross-cutting attribute returns a
\* value, every present subnetwork, the image encoder and decoder included,
\* reports that value.
C4_ReadValueIsSharedByAll ==
  (plast.op = "read" /\ plast.result.kind = "value") =>
    \A k \in DOMAIN pparts : part_attr(pparts[k], plast.attribute) = plast.result.value

\* the values of the attribute over the components that expose it: the noise
\* predictor and the text encoders, the VAE composite (its decoder's device)
\* and the safety checker (its device)
ExposedValues(attribute) ==
  {part_attr(pparts[k], attribute) : k \in (DOMAIN pparts) \cap {"unet", "text_encoder", "text_encoder_2"}}
  \cup (IF attribute = "device" /\ "vae_decoder" \in DOMAIN pparts
          THEN {pparts["vae_decoder"].device} ELSE {})
  \cup (IF attribute = "device" /\ psafety # << >> THEN {psafety[1].device} ELSE {})

\* C5: a read raises when no component exposes the attribute, raises when the
\* stringified values of two components differ, and otherwise returns the one
\* shared value (never a first or majority value of disagreeing components).
C5_ReadRaisesOrReturnsShared ==
  plast.op = "read" =>
    LET V == ExposedValues(plast.attribute) IN
    IF V = {}
      THEN plast.result.kind = "ValueError" /\ plast.result.msg = "is not defined for any component"
    ELSE IF Cardinality({str(plast.attribute, v) : v \in V}) > 1
      THEN plast.result.kind = "ValueError" /\ plast.result.msg = "is not the same across components"
    ELSE plast.result.kind = "value" /\ V = {plast.result.value}

\* a read that raised although two of three exposing components agree
C5_Witness ==
  /\ plast.op = "read" /\ plast.attribute = "device"
  /\ plast.result.kind = "ValueError"
  /\ {"unet", "text_encoder", "text_encoder_2"} \subseteq DOMAIN pparts
  /\ pparts["unet"].device = pparts["text_encoder"].device
  /\ pparts["text_encoder_2"].device # pparts["unet"].device

\* C6 (as claimed): a device move that raises leaves every component's
\* providers, provider options and device as they were before the call.
C6_FailedMoveChangesNothing ==
  [][ (StepOf("to") /\ plast'.raised # "none") =>
        (pparts' = pparts /\ psafety' = psafety) ]_vars


\* the last operation was a use of the VAE composite
VaeUsed == plast.op = "vae"

\* what the last use of the composite gave is what the facade is said to give
FacadeResult ==
  (VaeUsed /\ "vae_decoder" \in DOMAIN pparts) =>
    CASE plast.use = "decode" ->
           plast.result = [kind |-> "delegated", value |-> "vae_decoder"]
      [] plast.use = "encode" ->
           IF "vae_encoder" \in DOMAIN pparts
           THEN plast.result = [kind |-> "delegated", value |-> "vae_encoder"]
           ELSE plast.result.kind = "TypeError"
      [] OTHER ->
           plast.result = [kind |-> "value", value |-> pparts["vae_decoder"][plast.use]]

\* C17: the VAE composite is a read-through facade: decode goes to the
\* decoder, encode to the encoder, and device, dtype and config are the
\* decoder's even when the encoder's differ; with no encoder, encode fails
\* with an error at the call and changes no component, and decode, device,
\* dtype and config still work.
C17_VaeFacade ==
  /\ []FacadeResult
  /\ [][ plast'.op = "vae" => (pparts' = pparts /\ psafety' = psafety) ]_vars

\* the device of the composite was read while the encoder is on another device
C17_Witness ==
  /\ VaeUsed /\ plast.use = "device"
  /\ {"vae_decoder", "vae_encoder"} \subseteq DOMAIN pparts
  /\ pparts["vae_encoder"].device # pparts["vae_decoder"].device
  /\ plast.result.value = pparts["vae_decoder"].device

\* the step is part.to(...) on the pipeline part k
PartMoved(k) == StepOf("to") /\ plast'.on = k

\* the provider and options the part holds after the step are those requested
ReportedAsRequested(k) ==
  /\ provider_of(pparts'[k]) = get_provider_for_device(plast'.device)
  /\ provider_options_of(pparts'[k]) = parse_device_options(plast'.device)

\* C18: when a part is moved to a device other than its current one, the
\* session's providers and options are re-read after set_providers and
\* compared with the request: when either differs the call raises and the
\* part's device is not updated, when both match the device becomes the
\* requested one.  A move to the current device, or with no device, changes
\* nothing and does not call set_providers.
C18_MoveComparesReportedProvider ==
  [][ \A k \in DOMAIN pparts :
        (PartMoved(k) /\ plast'.raised # "NotImplementedError") =>
          IF plast'.device = "None" \/ plast'.device = pparts[k].device
          THEN /\ pparts'[k] = pparts[k]
               /\ ~plast'.set_providers
               /\ plast'.raised = "none"
          ELSE /\ plast'.set_providers
               /\ IF ReportedAsRequested(k)
                  THEN plast'.raised = "none" /\ pparts'[k].device = plast'.device
                  ELSE /\ plast'.raised = "ValueError"
                       /\ pparts'[k].device = pparts[k].device ]_vars

\* a part asked to move to cuda:0 whose session switched provider but reports
\* other options: the call raised and the part's device is still cpu
C18_Witness ==
  /\ plast.op = "to" /\ plast.on \in DOMAIN pparts
  /\ plast.device = "cuda:0" /\ plast.raised = "ValueError"
  /\ provider_of(pparts[plast.on]) = CUDA
  /\ pparts[plast.on].device = "cpu"

\* the flag every part got at construction
ConstructedFlag ==
  plast.op = "init" =>
    \A k \in DOMAIN pparts :
      pparts[k].use_io_binding =
        (IF plast.use_io_binding # "None" THEN plast.use_io_binding = "True"
         ELSE provider_of(pparts[k]) = CUDA)

\* the parts whose flag the step changes
FlagChanged == {k \in DOMAIN pparts : pparts'[k].use_io_binding # pparts[k].use_io_binding}

\* C19: the flag of a part is selected at construction: the supplied value
\* when one is given, otherwise enabled exactly when the first provider is
\* CUDA.  Afterwards it changes only by an explicit assignment: a device move,
\* successful or failed, never changes it.
C19_FlagSetAtConstructionOnly ==
  /\ []ConstructedFlag
  /\ [][ /\ plast'.op = "to" => FlagChanged = {}
         /\ FlagChanged # {} => plast'.op = "set_use_io_binding" ]_vars

\* a part moved to cuda:0 with success whose flag is still off
C19_Witness ==
  /\ plast.op = "to" /\ plast.on \in DOMAIN pparts
  /\ plast.device = "cuda:0" /\ plast.raised = "none"
  /\ pparts[plast.on].device = "cuda:0"
  /\ provider_of(pparts[plast.on]) = CUDA
  /\ ~pparts[plast.on].use_io_binding

(***************************************************************************)
(* Vocabulary of the forward claims (SpecForward).                         *)
(***************************************************************************)
\* the last step was a forward call
Forwarded == fcall.op = "forward"

\* an earlier call bound a buffer for output name o
ProducedBefore(o) == o \in DOMAIN fseen

\* C1: with use_io_binding = True, a call allocates a buffer for output name
\* o only if no earlier call produced o or the shape resolved for o in this
\* call differs from the shape of the buffer the earlier calls left for o; so
\* the second of two calls with the same input shapes allocates nothing.
C1_AllocateOnlyOnShapeChange ==
  Forwarded =>
    \A o \in fcall.allocated : ~ProducedBefore(o) \/ fseen[o] # fcall.bound[o]

\* C2: the same sequence of calls, with the same inputs and flags, returns at
\* every call a mapping with the same set of names with use_io_binding = True
\* as with use_io_binding = False.
C2_SameOutputNamesBothStrategies ==
  (fres.op = "forward" /\ fres.iob.raised = "none" /\ fres.host.raised = "none") =>
    DOMAIN fres.iob.outputs = DOMAIN fres.host.outputs


\* the two results of the last call: with and without io binding
Strategies == {"iob", "host"}

\* the names hidden_states.i of a text encoder with num_hidden_layers layers
HiddenOutputs == {hidden_name(i) : i \in 0..(fpart.num_hidden_layers - 1)}

\* the list is hidden_states.0 .. hidden_states.N-1 in order, then last_hidden_state
IsHiddenStatesList(v) ==
  /\ v.type = "list"
  /\ Len(v.items) = fpart.num_hidden_layers + 1
  /\ \A i \in 0..(fpart.num_hidden_layers - 1) : v.items[i + 1].name = hidden_name(i)
  /\ v.items[fpart.num_hidden_layers + 1].name = "last_hidden_state"

\* C13: for a text encoder with N hidden layers, under either strategy and
\* after any earlier calls, a call that requests hidden states returns under
\* hidden_states the N outputs hidden_states.0 .. hidden_states.N-1 in order
\* followed by the final hidden state, and a call that does not request them
\* returns neither a hidden_states.i entry nor a hidden_states entry.
C13_HiddenStatesAssembledOrDiscarded ==
  (Forwarded /\ fpart.cls = "ORTModelTextEncoder") =>
    \A r \in Strategies :
      fres[r].raised = "none" =>
        IF fcall.output_hidden_states
        THEN /\ "hidden_states" \in DOMAIN fres[r].outputs
             /\ IsHiddenStatesList(fres[r].outputs["hidden_states"])
        ELSE (DOMAIN fres[r].outputs) \cap (HiddenOutputs \cup {"hidden_states"}) = {}


\* the last call was made on the noise predictor
UnetCalled == Forwarded /\ fpart.cls = "ORTModelUnet"

\* C14: a noise-predictor call with a zero-dimensional timestep behaves as
\* the call with the one-element timestep: under both strategies the engine
\* gets a timestep of shape (1,), and the result (error, output names, output
\* shapes, buffers) is the same for both forms.
C14_ScalarTimestepPromoted ==
  /\ UnetCalled =>
       \A r \in Strategies :
         fres[r].engine # << >> => fres[r].engine[1]["timestep"] = <<1>>
  /\ fpart.cls = "ORTModelUnet" =>
       \A n \in Batches, m \in Batches :
         /\ forward_io_binding(fpart, fcache, UnetInputs(n, m, << >>), FALSE)
              = forward_io_binding(fpart, fcache, UnetInputs(n, m, <<1>>), FALSE)
         /\ forward_host(fpart, UnetInputs(n, m, << >>), FALSE)
              = forward_host(fpart, UnetInputs(n, m, <<1>>), FALSE)

\* a call with a zero-dimensional timestep ran the engine, under both
\* strategies, on a timestep of shape (1,)
C14_Witness ==
  /\ UnetCalled
  /\ fcall.inputs["timestep"].shape = << >>
  /\ \A r \in Strategies :
       fres[r].raised = "none" /\ fres[r].engine # << >> /\ fres[r].engine[1]["timestep"] = <<1>>


\* what _get_output_shapes computes for the inputs of the last call
ResolverShapes == get_output_shapes(fpart, shapes_of(engine_inputs(fpart, fcall.inputs)))

\* C15: with io binding the noise predictor sizes its one output as the
\* sample's shape with dimension 1 replaced by the latent-channel count, and
\* for every sample shape this is the shape _get_output_shapes computes for
\* that output from the declared shapes and the configuration.
C15_FastPathEqualsResolver ==
  (UnetCalled /\ fres.iob.raised = "none") =>
    /\ ResolverShapes.kind = "ok"
    /\ \A o \in DOMAIN fcall.bound : fcall.bound[o] = ResolverShapes.shapes[o]


\* the last call was made on the image encoder, resp. the image decoder
VaeEncoderCalled == Forwarded /\ fpart.cls = "ORTModelVaeEncoder"
VaeDecoderCalled == Forwarded /\ fpart.cls = "ORTModelVaeDecoder"

\* the engine output of the given name is in the result under the key, as it
\* is or as the parameters of a distribution
ReturnedUnder(r, key, output_name) ==
  /\ key \in DOMAIN fres[r].outputs
  /\ IF key = "latent_dist"
     THEN /\ fres[r].outputs[key].type = "DiagonalGaussianDistribution"
          /\ fres[r].outputs[key].parameters.name = output_name
     ELSE fres[r].outputs[key].name = output_name

\* C16: the image encoder's result never has the keys latent_sample or
\* latent_parameters: an engine output latent_sample is returned under
\* latents, an engine output latent_parameters only wrapped in a distribution
\* under latent_dist.  The image decoder renames latent_sample to latents in
\* the same way and never returns a latent_dist entry.
C16_VaeOutputsRenamed ==
  \A r \in Strategies :
    ((VaeEncoderCalled \/ VaeDecoderCalled) /\ fres[r].raised = "none") =>
      /\ "latent_sample" \notin DOMAIN fres[r].outputs
      /\ "latent_sample" \in Range(fpart.output_order) => ReturnedUnder(r, "latents", "latent_sample")
      /\ VaeEncoderCalled =>
           /\ "latent_parameters" \notin DOMAIN fres[r].outputs
           /\ "latent_parameters" \in Range(fpart.output_order)
                => ReturnedUnder(r, "latent_dist", "latent_parameters")
      /\ VaeDecoderCalled => "latent_dist" \notin DOMAIN fres[r].outputs

\* a second call of an image encoder whose engine gives latent_parameters
C16_Witness ==
  /\ VaeEncoderCalled /\ fseen # EmptyDict
  /\ \A r \in Strategies : ReturnedUnder(r, "latent_dist", "latent_parameters")


\* the input names the last call supplied a tensor for
SuppliedInputs == {k \in DOMAIN fcall.inputs : fcall.inputs[k] # None}

\* the input names the session declares
DeclaredInputs == Range(fpart.input_order)

\* C20: under both strategies, a call that supplies an input name the
\* session does not declare raises instead of running the engine.
C20_UndeclaredInputRaises ==
  (Forwarded /\ ~(SuppliedInputs \subseteq DeclaredInputs)) =>
    \A r \in Strategies : fres[r].raised # "none" /\ fres[r].engine = << >>

(***************************************************************************)
(* The pipeline classes and the registries that select one of them         *)
(* (SUPPORTED_ORT_PIPELINES, the task mappings, _get_ort_class,            *)
(* _get_task_ort_class).  A class is the pair of its __name__ and of       *)
(* its auto_model_class.__name__.                                          *)
(***************************************************************************)
ORTStableDiffusionPipeline ==
  [name |-> "ORTStableDiffusionPipeline", auto_model_class |-> "StableDiffusionPipeline"]

ORTStableDiffusionImg2ImgPipeline ==
  [name |-> "ORTStableDiffusionImg2ImgPipeline", auto_model_class |-> "StableDiffusionImg2ImgPipeline"]

ORTStableDiffusionInpaintPipeline ==
  [name |-> "ORTStableDiffusionInpaintPipeline", auto_model_class |-> "StableDiffusionInpaintPipeline"]

ORTStableDiffusionXLPipeline ==
  [name |-> "ORTStableDiffusionXLPipeline", auto_model_class |-> "StableDiffusionXLPipeline"]

ORTStableDiffusionXLImg2ImgPipeline ==
  [name |-> "ORTStableDiffusionXLImg2ImgPipeline", auto_model_class |-> "StableDiffusionXLImg2ImgPipeline"]

ORTStableDiffusionXLInpaintPipeline ==
  [name |-> "ORTStableDiffusionXLInpaintPipeline", auto_model_class |-> "StableDiffusionXLInpaintPipeline"]

ORTLatentConsistencyModelPipeline ==
  [name |-> "ORTLatentConsistencyModelPipeline", auto_model_class |-> "LatentConsistencyModelPipeline"]

ORTLatentConsistencyModelImg2ImgPipeline ==
  [name |-> "ORTLatentConsistencyModelImg2ImgPipeline",
   auto_model_class |-> "LatentConsistencyModelImg2ImgPipeline"]

SUPPORTED_ORT_PIPELINES ==
  <<ORTStableDiffusionPipeline,
    ORTStableDiffusionImg2ImgPipeline,
    ORTStableDiffusionInpaintPipeline,
    ORTStableDiffusionXLPipeline,
    ORTStableDiffusionXLImg2ImgPipeline,
    ORTStableDiffusionXLInpaintPipeline,
    ORTLatentConsistencyModelPipeline,
    ORTLatentConsistencyModelImg2ImgPipeline>>

\* an OrderedDict is the sequence of its (key, value) items
ORT_TEXT2IMAGE_PIPELINES_MAPPING ==
  << <<"stable-diffusion", ORTStableDiffusionPipeline>>,
     <<"stable-diffusion-xl", ORTStableDiffusionXLPipeline>>,
     <<"latent-consistency", ORTLatentConsistencyModelPipeline>> >>

ORT_IMAGE2IMAGE_PIPELINES_MAPPING ==
  << <<"stable-diffusion", ORTStableDiffusionImg2ImgPipeline>>,
     <<"stable-diffusion-xl", ORTStableDiffusionXLImg2ImgPipeline>>,
     <<"latent-consistency", ORTLatentConsistencyModelImg2ImgPipeline>> >>

ORT_INPAINT_PIPELINES_MAPPING ==
  << <<"stable-diffusion", ORTStableDiffusionInpaintPipeline>>,
     <<"stable-diffusion-xl", ORTStableDiffusionXLInpaintPipeline>> >>

SUPPORTED_ORT_PIPELINES_MAPPINGS ==
  <<ORT_TEXT2IMAGE_PIPELINES_MAPPING,
    ORT_IMAGE2IMAGE_PIPELINES_MAPPING,
    ORT_INPAINT_PIPELINES_MAPPING>>

\* how a lookup ends: with a returned value or with a raised exception
Returns(value) == [raised |-> "none", value |-> value]
Raises(kind) == [raised |-> kind, value |-> None]

\* the loop condition comparing __name__ only
class_matches_ort_name(ort_pipeline_class, pipeline_class_name) ==
  ort_pipeline_class.name = pipeline_class_name

\* the condition of the two lookup loops
class_matches(ort_pipeline_class, pipeline_class_name) ==
  \/ ort_pipeline_class.name = pipeline_class_name
  \/ ort_pipeline_class.auto_model_class = pipeline_class_name

\* _get_ort_class: the first class of the list that matches; without a match
\* it raises, or falls off the end (returns None) when told not to raise
get_ort_class(pipeline_class_name, throw_error_if_not_exist) ==
  LET hits == {i \in DOMAIN SUPPORTED_ORT_PIPELINES :
                 class_matches(SUPPORTED_ORT_PIPELINES[i], pipeline_class_name)} IN
  IF hits # {}
    THEN Returns(SUPPORTED_ORT_PIPELINES[CHOOSE i \in hits : \A j \in hits : i <= j])
    ELSE IF throw_error_if_not_exist THEN Raises("ValueError") ELSE Returns(None)

\* _get_model_name: the key of the first matching item, the mappings in order
\* and each mapping's items in order; << >> stands for None, <<key>> for a key
get_model_name(pipeline_class_name) ==
  LET hits == {h \in (DOMAIN SUPPORTED_ORT_PIPELINES_MAPPINGS) \X (1..3) :
                 /\ h[2] \in DOMAIN SUPPORTED_ORT_PIPELINES_MAPPINGS[h[1]]
                 /\ class_matches(SUPPORTED_ORT_PIPELINES_MAPPINGS[h[1]][h[2]][2], pipeline_class_name)}
      first == CHOOSE h \in hits :
                 \A g \in hits : h[1] < g[1] \/ (h[1] = g[1] /\ h[2] <= g[2])
  IN IF hits = {} THEN << >> ELSE <<SUPPORTED_ORT_PIPELINES_MAPPINGS[first[1]][first[2]][1]>>

\* mapping.get(key, None)
mapping_get(mapping, key) ==
  LET hits == {i \in DOMAIN mapping : mapping[i][1] = key} IN
  IF hits = {} THEN None ELSE mapping[CHOOSE i \in hits : TRUE][2]

\* _get_task_ort_class(mapping, pipeline_class_name)
get_task_ort_class(mapping, pipeline_class_name) ==
  LET model_name == get_model_name(pipeline_class_name) IN
  IF model_name # << >> /\ mapping_get(mapping, model_name[1]) # None
    THEN Returns(mapping_get(mapping, model_name[1]))
    ELSE Raises("ValueError")

(***************************************************************************)
(* SpecRegistry: class lookups by name, with names of the engine-backed    *)
(* classes, of the original pipeline classes, and names that are neither.  *)
(***************************************************************************)
OtherNames ==
  {"", "ORTDiffusionPipeline", "DiffusionPipeline", "StableDiffusion3Pipeline",
   "ORTPipelineForInpainting", "stable-diffusion"}

ClassNames ==
  {SUPPORTED_ORT_PIPELINES[i].name : i \in DOMAIN SUPPORTED_ORT_PIPELINES}
    \cup {SUPPORTED_ORT_PIPELINES[i].auto_model_class : i \in DOMAIN SUPPORTED_ORT_PIPELINES}
    \cup OtherNames

RegistryInit ==
  /\ ShapesIdle
  /\ PipelineIdle
  /\ ForwardIdle
  /\ RegistryIdle
  /\ SaveLoadIdle

\* one call of _get_ort_class(pipeline_class_name, throw_error_if_not_exist)
GetOrtClass ==
  /\ \E pipeline_class_name \in ClassNames, throw_error_if_not_exist \in BOOLEAN :
       /\ rcall' = [op |-> "_get_ort_class",
                    pipeline_class_name |-> pipeline_class_name,
                    throw_error_if_not_exist |-> throw_error_if_not_exist]
       /\ rres' = get_ort_class(pipeline_class_name, throw_error_if_not_exist)
  /\ UNCHANGED svars
  /\ UNCHANGED pvars
  /\ UNCHANGED fvars
  /\ UNCHANGED dvars

\* one call of _get_task_ort_class(mapping, pipeline_class_name), the mapping
\* being the ort_pipelines_mapping of one of the ORTPipelineForTask classes
GetTaskOrtClass ==
  /\ \E m \in DOMAIN SUPPORTED_ORT_PIPELINES_MAPPINGS, pipeline_class_name \in ClassNames :
       /\ rcall' = [op |-> "_get_task_ort_class",
                    mapping |-> SUPPORTED_ORT_PIPELINES_MAPPINGS[m],
                    pipeline_class_name |-> pipeline_class_name]
       /\ rres' = get_task_ort_class(SUPPORTED_ORT_PIPELINES_MAPPINGS[m], pipeline_class_name)
  /\ UNCHANGED svars
  /\ UNCHANGED pvars
  /\ UNCHANGED fvars
  /\ UNCHANGED dvars

RegistryNext ==
  \/ GetOrtClass
  \/ GetTaskOrtClass

SpecRegistry == RegistryInit /\ [][RegistryNext]_vars

(***************************************************************************)
(* Class selection.                                                        *)
(***************************************************************************)
AllClasses == Range(SUPPORTED_ORT_PIPELINES)

\* the families a name belongs to: the keys under which some task registry
\* holds a class with that engine-backed or original name
FamiliesOf(pipeline_class_name) ==
  {item[1] : item \in {it \in UNION {Range(SUPPORTED_ORT_PIPELINES_MAPPINGS[m]) :
                                       m \in DOMAIN SUPPORTED_ORT_PIPELINES_MAPPINGS} :
                         pipeline_class_name \in {it[2].name, it[2].auto_model_class}}}

\* the classes a registry holds for a family
EntriesOf(mapping, family) == {item[2] : item \in {it \in Range(mapping) : it[1] = family}}

TaskLookup == rcall.op = "_get_task_ort_class"

DefaultLookup == rcall.op = "_get_ort_class" /\ rcall.throw_error_if_not_exist

\* C21: _get_task_ort_class returns the registry's class for the family the
\* name belongs to, and raises a ValueError when the name belongs to no family
\* or the registry has no entry for the family; _get_ort_class with its
\* default arguments returns one of the supported classes or raises a
\* ValueError, it never returns None.
C21_LookupReturnsClassOrRaises ==
  /\ TaskLookup =>
       LET families == FamiliesOf(rcall.pipeline_class_name)
           entries == UNION {EntriesOf(rcall.mapping, f) : f \in families}
       IN /\ Cardinality(families) <= 1
          /\ Cardinality(entries) <= 1
          /\ entries # {} => rres.raised = "none" /\ rres.value \in entries
          /\ entries = {} => rres.raised = "ValueError"
  /\ DefaultLookup =>
       \/ rres.raised = "ValueError"
       \/ rres.raised = "none" /\ rres.value \in AllClasses

\* an original pipeline class name looked up in another task's registry
C21_Witness ==
  /\ TaskLookup
  /\ rcall.mapping = ORT_INPAINT_PIPELINES_MAPPING
  /\ rcall.pipeline_class_name = "StableDiffusionXLImg2ImgPipeline"
  /\ rres = Returns(ORTStableDiffusionXLInpaintPipeline)

(***************************************************************************)
(* Saving and loading a pipeline (_save_pretrained, _from_pretrained and   *)
(* the configuration check of ORTPipelinePart.__init__) over a file        *)
(* system.  A path is <<directory, subfolder, file name>>.  The scheduler  *)
(* is saved and loaded by its own library, in the subfolder scheduler; the *)
(* optional tokenizers and feature extractor are left out.                 *)
(***************************************************************************)
ONNX_WEIGHTS_NAME == "model.onnx"
CONFIG_NAME == "config.json"
SCHEDULER_CONFIG_NAME == "scheduler_config.json"

\* DIFFUSION_MODEL_*_SUBFOLDER, by part name
SUBFOLDER ==
  [unet |-> "unet", vae_decoder |-> "vae_decoder", vae_encoder |-> "vae_encoder",
   text_encoder |-> "text_encoder", text_encoder_2 |-> "text_encoder_2"]

\* the order in which the parts are visited (the code iterates a set of
\* (model, path) pairs and a dict; the parts' files do not overlap)
PartOrder == <<"unet", "vae_decoder", "vae_encoder", "text_encoder", "text_encoder_2">>

\* Path.is_file and reading a file
is_file(fs, path) ==
  /\ path[1] \in DOMAIN fs
  /\ path[2] \in DOMAIN fs[path[1]]
  /\ path[3] \in DOMAIN fs[path[1]][path[2]]

read_file(fs, path) == fs[path[1]][path[2]][path[3]]

\* save_path.mkdir(parents=True, exist_ok=True)
mkdir(fs, dir, sub) ==
  LET top == IF dir \in DOMAIN fs THEN fs ELSE DictSet(fs, dir, EmptyDict) IN
  IF sub \in DOMAIN top[dir] THEN top ELSE [top EXCEPT ![dir] = DictSet(@, sub, EmptyDict)]

\* shutil.copyfile(src, dst): refuses to copy a file onto itself, otherwise
\* creates or overwrites dst with the content of src
copyfile(st, src, dst) ==
  IF st.raised # "none" THEN st
  ELSE IF src = dst THEN [st EXCEPT !.raised = "SameFileError"]
  ELSE [st EXCEPT !.fs[dst[1]][dst[2]] = DictSet(@, dst[3], read_file(st.fs, src))]

\* _get_model_external_data_paths(model_path): the files next to the model
\* that hold the tensors the model stores externally
get_model_external_data_paths(fs, model_path) ==
  {<<model_path[1], model_path[2], name>> :
     name \in {n \in read_file(fs, model_path).external_data :
                 is_file(fs, <<model_path[1], model_path[2], n>>)}}

RECURSIVE copy_external_data(_, _, _)
copy_external_data(st, paths, save_path) ==
  IF paths = {} THEN st
  ELSE LET external_data_path == CHOOSE q \in paths : TRUE IN
       copy_external_data(
         copyfile(st, external_data_path, <<save_path[1], save_path[2], external_data_path[3]>>),
         paths \ {external_data_path}, save_path)

\* the body of the loop without the copy of the model config
save_model_without_config(st, model, save_path) ==
  IF st.raised # "none" THEN st
  ELSE
    LET model_path == model.model_path
        made == [st EXCEPT !.fs = mkdir(st.fs, save_path[1], save_path[2])]
        copied == copyfile(made, model_path, <<save_path[1], save_path[2], ONNX_WEIGHTS_NAME>>)
    IN copy_external_data(copied, get_model_external_data_paths(st.fs, model_path), save_path)

\* the body of the loop of _save_pretrained for one part that is not None
save_model(st, model, save_path) ==
  IF st.raised # "none" THEN st
  ELSE
    LET model_path == model.model_path
        made == [st EXCEPT !.fs = mkdir(st.fs, save_path[1], save_path[2])]
        copied == copyfile(made, model_path, <<save_path[1], save_path[2], ONNX_WEIGHTS_NAME>>)
        external == copy_external_data(copied,
                      get_model_external_data_paths(st.fs, model_path), save_path)
        config_path == <<model_path[1], model_path[2], CONFIG_NAME>>
    IN IF is_file(st.fs, config_path)
         THEN copyfile(external, config_path, <<save_path[1], save_path[2], CONFIG_NAME>>)
         ELSE external

RECURSIVE save_models(_, _, _, _)
save_models(st, parts, save_directory, i) ==
  IF i > Len(PartOrder) THEN st
  ELSE LET k == PartOrder[i] IN
       save_models(
         IF k \in DOMAIN parts
           THEN save_model(st, parts[k], <<save_directory, SUBFOLDER[k]>>)
           ELSE st,
         parts, save_directory, i + 1)

\* self.scheduler.save_pretrained(save_directory / "scheduler")
save_scheduler(st, scheduler, save_directory) ==
  IF st.raised # "none" THEN st
  ELSE [st EXCEPT !.fs = [mkdir(st.fs, save_directory, "scheduler") EXCEPT
                            ![save_directory]["scheduler"] =
                               DictSet(@, SCHEDULER_CONFIG_NAME, scheduler)]]

\* _save_pretrained(save_directory): how it ends and the file system it leaves
save_pretrained(fs, pipeline, save_directory) ==
  save_scheduler(
    save_models([raised |-> "none", fs |-> fs], pipeline.parts, save_directory, 1),
    pipeline.scheduler, save_directory)

\* ORTModel.load_model(path, ...): a session on the model file, which
\* remembers the path it was loaded from
load_model(fs, path) == [model_path |-> path, model |-> read_file(fs, path)]

\* the sessions of _from_pretrained: one for every part whose model file exists
load_sessions(fs, model_save_path) ==
  LET found == {k \in Range(PartOrder) :
                  is_file(fs, <<model_save_path, SUBFOLDER[k], ONNX_WEIGHTS_NAME>>)} IN
  [k \in found |-> load_model(fs, <<model_save_path, SUBFOLDER[k], ONNX_WEIGHTS_NAME>>)]

\* the configuration check of ORTPipelinePart.__init__
config_file_path(session) == <<session.model_path[1], session.model_path[2], CONFIG_NAME>>

\* ORTPipelinePart.__init__ as far as the files go: the part keeps the session
\* and registers the content of the configuration file next to the model
new_loaded_part(fs, session) ==
  [model_path |-> session.model_path,
   session    |-> session.model,
   config     |-> read_file(fs, config_file_path(session))]

\* _from_pretrained(model_id, config) called on the class cls, class_name being
\* config["_class_name"], model_id
\* a local directory and the file names the default ones
from_pretrained(fs, cls, class_name, model_id) ==
  LET sessions == load_sessions(fs, model_id)
      scheduler_path == <<model_id, "scheduler", SCHEDULER_CONFIG_NAME>>
      ort_pipeline_class ==
        IF cls = "ORTDiffusionPipeline"
          THEN get_ort_class(class_name, TRUE)
          ELSE Returns([name |-> cls])
      without_config == {k \in DOMAIN sessions : ~is_file(fs, config_file_path(sessions[k]))}
  IN IF ~is_file(fs, scheduler_path)
       THEN [raised |-> "OSError", msg |-> "no scheduler configuration", pipeline |-> [cls |-> "none"]]
     ELSE IF ort_pipeline_class.raised # "none"
       THEN [raised |-> "ValueError", msg |-> "can't find a pipeline", pipeline |-> [cls |-> "none"]]
     ELSE IF without_config # {}
       THEN [raised |-> "ValueError", msg |-> "Configuration file not found",
             pipeline |-> [cls |-> "none"]]
     ELSE [raised |-> "none", msg |-> "",
           pipeline |-> [cls       |-> ort_pipeline_class.value.name,
                         scheduler |-> read_file(fs, scheduler_path),
                         parts     |-> [k \in DOMAIN sessions |-> new_loaded_part(fs, sessions[k])]]]

(***************************************************************************)
(* SpecSaveLoad: directories that hold exported pipelines, a caller that   *)
(* loads a pipeline from a directory and saves the pipeline it holds to a  *)
(* directory.                                                              *)
(***************************************************************************)
Dirs == {"d1", "d2", "d3"}

\* the files main_export leaves for one part of the pipeline named id
ExportedFiles(id, k, external) ==
  LET model == [graph |-> <<id, k>>,
                external_data |-> IF external THEN {"model.onnx_data"} ELSE {}]
      files == [f \in {ONNX_WEIGHTS_NAME, CONFIG_NAME} |->
                  IF f = ONNX_WEIGHTS_NAME THEN model ELSE [json |-> <<id, k>>]]
  IN IF external THEN DictSet(files, "model.onnx_data", [data |-> <<id, k>>]) ELSE files

\* an exported pipeline with the given parts and its scheduler; the unet may
\* keep its weights in an external data file
ExportedPipeline(id, present, external) ==
  [sub \in {SUBFOLDER[k] : k \in present} \cup {"scheduler"} |->
     IF sub = "scheduler"
       THEN [f \in {SCHEDULER_CONFIG_NAME} |-> [json |-> <<id, "scheduler">>]]
       ELSE ExportedFiles(id, CHOOSE k \in present : SUBFOLDER[k] = sub,
                          external /\ sub = SUBFOLDER["unet"])]

ExportedSets ==
  { PartNames,
    {"unet", "vae_decoder", "text_encoder"} }

\* the classes _from_pretrained is called on and the _class_name of the config
LoadClasses == {"ORTDiffusionPipeline", "ORTStableDiffusionXLPipeline"}
ConfigClassNames == {"StableDiffusionPipeline", "DiffusionPipeline"}

SaveLoadInit ==
  /\ ShapesIdle
  /\ PipelineIdle
  /\ ForwardIdle
  /\ RegistryIdle
  /\ \E p1 \in ExportedSets, p2 \in ExportedSets \cup {{}}, external \in BOOLEAN :
       disk = [d \in Dirs |->
                 IF d = "d1" THEN ExportedPipeline("a", p1, external)
                 ELSE IF d = "d2" /\ p2 # {} THEN ExportedPipeline("b", p2, FALSE)
                 ELSE EmptyDict]
  /\ dpipe = [cls |-> "none"]
  /\ dsaved = [op |-> "idle"]
  /\ dlast = [op |-> "idle"]

\* the state after _from_pretrained(model_id, config) ended as r
Loaded(model_id, r) ==
  /\ dlast' = [op |-> "_from_pretrained", model_id |-> model_id, raised |-> r.raised, msg |-> r.msg]
  /\ dpipe' = IF r.raised = "none" THEN r.pipeline ELSE dpipe
  /\ UNCHANGED <<disk, dsaved>>
  /\ UNCHANGED svars
  /\ UNCHANGED pvars
  /\ UNCHANGED fvars
  /\ UNCHANGED rvars

\* the caller loads a pipeline from a directory
FromPretrained ==
  \E model_id \in Dirs, cls \in LoadClasses, class_name \in ConfigClassNames :
    Loaded(model_id, from_pretrained(disk, cls, class_name, model_id))

\* the state after _save_pretrained(save_directory) ended as r; held is the
\* set of parts the directory had a model file of before the call
Saved(save_directory, r) ==
  /\ disk' = r.fs
  /\ dlast' = [op |-> "_save_pretrained", model_id |-> save_directory, raised |-> r.raised, msg |-> ""]
  /\ dsaved' = IF r.raised = "none"
               THEN [op |-> "_save_pretrained", save_directory |-> save_directory,
                     pipeline |-> dpipe, held |-> DOMAIN load_sessions(disk, save_directory)]
               ELSE dsaved
  /\ UNCHANGED dpipe
  /\ UNCHANGED svars
  /\ UNCHANGED pvars
  /\ UNCHANGED fvars
  /\ UNCHANGED rvars

\* the caller saves the pipeline it holds to a directory
SavePretrained ==
  /\ dpipe.cls # "none"
  /\ \E save_directory \in Dirs :
       Saved(save_directory, save_pretrained(disk, dpipe, save_directory))

SaveLoadNext ==
  \/ FromPretrained
  \/ SavePretrained

SpecSaveLoad == SaveLoadInit /\ [][SaveLoadNext]_vars

(***************************************************************************)
(* Save and load round trip.                                               *)
(***************************************************************************)
\* the last operation loaded from the directory of the last completed save
LoadedBack ==
  /\ dlast.op = "_from_pretrained"
  /\ dsaved.op = "_save_pretrained"
  /\ dlast.model_id = dsaved.save_directory

NoMissingConfiguration ==
  ~(dlast.raised = "ValueError" /\ dlast.msg = "Configuration file not found")

\* the part k of the loaded pipeline has the model and the configuration of
\* the part k of the saved pipeline
SameAsSaved(k) ==
  /\ dpipe.parts[k].session = dsaved.pipeline.parts[k].session
  /\ dpipe.parts[k].config = dsaved.pipeline.parts[k].config

C24_CacheHoldsDeclaredBuffers ==
  /\ DOMAIN fcache \subseteq Range(fpart.output_order)
  /\ \A k \in DOMAIN fcache : fcache[k].type = "buffer"
  /\ (Forwarded /\ fres.iob.raised = "none") =>
       \A o \in DOMAIN fcall.bound :
         o \in DOMAIN fcache /\ fcache[o] = Buffer(o, fcall.bound[o])

\* the one output of the noise predictor
UnetOutput == fpart.output_order[1]

\* the last two calls were noise-predictor calls that returned with io binding
TwoUnetCalls ==
  /\ UnetCalled /\ fres.iob.raised = "none"
  /\ UnetOutput \in DOMAIN fheld.prev

\* C25: with io binding the tensor a noise-predictor call returns is the
\* buffer of the cache, holding what the call's engine run wrote.  Of two
\* consecutive calls that bind the same output shape, the first returned the
\* tensor the second returns, which after the second call holds the second
\* call's contents; when the shapes differ the second call returns another
\* tensor and the tensor of the first call keeps its shape and its contents.
C25_ReturnedBufferIsTheCachedOne ==
  (UnetCalled /\ fres.iob.raised = "none") =>
    /\ UnetOutput \in (DOMAIN fheld.last) \cap (DOMAIN fcache)
    /\ fcache[UnetOutput] = fres.iob.outputs[UnetOutput]
    /\ fheld.last[UnetOutput] = fbuf[UnetOutput]
    /\ fheap[fheld.last[UnetOutput]] = [shape |-> fcall.bound[UnetOutput], contents |-> "last"]
    /\ TwoUnetCalls =>
         IF fseen[UnetOutput] = fcall.bound[UnetOutput]
           THEN fheld.prev[UnetOutput] = fheld.last[UnetOutput]
           ELSE /\ fheld.prev[UnetOutput] # fheld.last[UnetOutput]
                /\ fheap[fheld.prev[UnetOutput]] = [shape |-> fseen[UnetOutput], contents |-> "prev"]

\* two consecutive noise-predictor calls with the same sample shape: the
\* caller holds one tensor, written by the second call
C25_Witness ==
  /\ TwoUnetCalls
  /\ fseen[UnetOutput] = fcall.bound[UnetOutput]
  /\ fcall.allocated = {}
  /\ fheld.prev[UnetOutput] = fheld.last[UnetOutput]
  /\ fheap[fheld.prev[UnetOutput]].contents = "last"

====
